---- MODULE Spec2Model ----
(***************************************************************************)
(* A model of the sql-helper ANSI DDL front end: the nom-based parsers of  *)
(* src/src/common/parsers.rs, src/src/ansi/parser/*.rs and the Display     *)
(* implementations of src/src/ansi/ast/*.rs.                               *)
(*                                                                         *)
(* Text is a sequence of one-character strings.  A parser is the record   *)
(* its combinator calls describe, and run applies it to a text; the result *)
(* is [ok |-> TRUE, rest, val] on success and [ok |-> FALSE, rest, val] on *)
(* a recoverable error, where rest is then the sub-slice the nom error     *)
(* carries.  Every AST value is a record with a tag field.                 *)
(***************************************************************************)
EXTENDS Integers, Sequences, FiniteSets, TLC

VARIABLES entry, form, input, pc, result, rendered, reparsed, calls, threads

vars == <<entry, form, input, pc, result, rendered, reparsed, calls, threads>>

(***************************************************************************)
(* Bounds of the model.                                                    *)
(***************************************************************************)
\* longest dotted chain of identifiers that is generated
MaxChain == 4
\* largest number of column definitions in a generated element list
MaxCols == 3
\* largest number of statements in a generated buffer
MaxStatements == 2
\* largest length of a text given to statement_terminator
MaxTerminatorText == 4
\* largest length of a text given to ident
MaxIdentText == 4
\* largest number of concurrent calls of parse_statement
MaxThreads == 2
\* largest number of calls a driver over a buffer is followed for
MaxCalls == 5

\* a u32 is held as two decimal limbs, hi * Limb + lo, because the values
\* reach 4294967295 = U32MaxHi * Limb + U32MaxLo
Limb == 100000
U32MaxHi == 42949
U32MaxLo == 67295

(***************************************************************************)
(* Characters.                                                             *)
(***************************************************************************)
UpperSeq == <<"A", "B", "C", "D", "E", "F", "G", "H", "I", "J", "K", "L", "M", "N", "O", "P", "Q", "R", "S", "T", "U", "V", "W", "X", "Y", "Z">>
LowerSeq == <<"a", "b", "c", "d", "e", "f", "g", "h", "i", "j", "k", "l", "m", "n", "o", "p", "q", "r", "s", "t", "u", "v", "w", "x", "y", "z">>
DigitSeq == <<"0", "1", "2", "3", "4", "5", "6", "7", "8", "9">>

ToUpperMap == [c \in {LowerSeq[k] : k \in 1..26} |-> UpperSeq[CHOOSE k \in 1..26 : LowerSeq[k] = c]]
ToLowerMap == [c \in {UpperSeq[k] : k \in 1..26} |-> LowerSeq[CHOOSE k \in 1..26 : UpperSeq[k] = c]]
DigitMap == [c \in {DigitSeq[k] : k \in 1..10} |-> (CHOOSE k \in 1..10 : DigitSeq[k] = c) - 1]

ToUpper(c) == IF c \in DOMAIN ToUpperMap THEN ToUpperMap[c] ELSE c
ToLower(c) == IF c \in DOMAIN ToLowerMap THEN ToLowerMap[c] ELSE c
LowerText(s) == [k \in 1..Len(s) |-> ToLower(s[k])]

is_alphabetic(c) == c \in DOMAIN ToUpperMap \cup DOMAIN ToLowerMap
is_digit(c) == c \in DOMAIN DigitMap

\* the horizontal tab, line feed, form feed, carriage return and space of the
\* whitespace list (the bytes 0x0B, 0x85 and 0xA0 are left out of the alphabet)
is_whitespace(c) == c \in {"\t", "\n", "\f", "\r", " "}

\* nom's multispace: space, tab, carriage return, line feed
is_multispace(c) == c \in {" ", "\t", "\r", "\n"}

is_sql_identifier(c) == is_alphabetic(c) \/ is_digit(c) \/ c = "_" \/ c = "@"

(***************************************************************************)
(* Results and values.                                                     *)
(***************************************************************************)
Unit == [tag |-> "Unit"]
None == [tag |-> "None"]
SomeN(n) == [tag |-> "Some", n |-> n]
SomeV(v) == [tag |-> "Some", v |-> v]

Ok(rest, val) == [ok |-> TRUE, rest |-> rest, val |-> val]
Err(at) == [ok |-> FALSE, rest |-> at, val |-> Unit]

Drop(i, n) == SubSeq(i, n + 1, Len(i))
Take(i, n) == SubSeq(i, 1, n)

\* the keywords of the grammar, as the parsers and the Display code spell them
KW ==
    [CHARACTER_VARYING |-> <<"C", "H", "A", "R", "A", "C", "T", "E", "R", " ", "V", "A", "R", "Y", "I", "N", "G">>,
     CHAR_VARYING |-> <<"C", "H", "A", "R", " ", "V", "A", "R", "Y", "I", "N", "G">>,
     CHARACTER |-> <<"C", "H", "A", "R", "A", "C", "T", "E", "R">>,
     VARCHAR |-> <<"V", "A", "R", "C", "H", "A", "R">>,
     CHAR |-> <<"C", "H", "A", "R">>,
     CHARACTER_LARGE_OBJECT |-> <<"C", "H", "A", "R", "A", "C", "T", "E", "R", " ", "L", "A", "R", "G", "E", " ", "O", "B", "J", "E", "C", "T">>,
     CHAR_LARGE_OBJECT |-> <<"C", "H", "A", "R", " ", "L", "A", "R", "G", "E", " ", "O", "B", "J", "E", "C", "T">>,
     CLOB |-> <<"C", "L", "O", "B">>,
     BINARY_LARGE_OBJECT |-> <<"B", "I", "N", "A", "R", "Y", " ", "L", "A", "R", "G", "E", " ", "O", "B", "J", "E", "C", "T">>,
     BLOB |-> <<"B", "L", "O", "B">>,
     VARBINARY |-> <<"V", "A", "R", "B", "I", "N", "A", "R", "Y">>,
     BINARY_VARYING |-> <<"B", "I", "N", "A", "R", "Y", " ", "V", "A", "R", "Y", "I", "N", "G">>,
     BINARY |-> <<"B", "I", "N", "A", "R", "Y">>,
     DECIMAL |-> <<"D", "E", "C", "I", "M", "A", "L">>,
     NUMERIC |-> <<"N", "U", "M", "E", "R", "I", "C">>,
     DEC |-> <<"D", "E", "C">>,
     SMALLINT |-> <<"S", "M", "A", "L", "L", "I", "N", "T">>,
     INTEGER |-> <<"I", "N", "T", "E", "G", "E", "R">>,
     BIGINT |-> <<"B", "I", "G", "I", "N", "T">>,
     INT |-> <<"I", "N", "T">>,
     FLOAT |-> <<"F", "L", "O", "A", "T">>,
     REAL |-> <<"R", "E", "A", "L">>,
     DOUBLE_PRECISION |-> <<"D", "O", "U", "B", "L", "E", " ", "P", "R", "E", "C", "I", "S", "I", "O", "N">>,
     DECFLOAT |-> <<"D", "E", "C", "F", "L", "O", "A", "T">>,
     BOOLEAN_TYPE |-> <<"B", "O", "O", "L", "E", "A", "N">>,
     DATE |-> <<"D", "A", "T", "E">>,
     TIMESTAMP |-> <<"T", "I", "M", "E", "S", "T", "A", "M", "P">>,
     TIME |-> <<"T", "I", "M", "E">>,
     OCTETS |-> <<"O", "C", "T", "E", "T", "S">>,
     CHARACTERS |-> <<"C", "H", "A", "R", "A", "C", "T", "E", "R", "S">>,
     WITHOUT_TIME_ZONE |-> <<"W", "I", "T", "H", "O", "U", "T", " ", "T", "I", "M", "E", " ", "Z", "O", "N", "E">>,
     WITH_TIME_ZONE |-> <<"W", "I", "T", "H", " ", "T", "I", "M", "E", " ", "Z", "O", "N", "E">>,
     CREATE |-> <<"C", "R", "E", "A", "T", "E">>,
     DROP |-> <<"D", "R", "O", "P">>,
     SCHEMA |-> <<"S", "C", "H", "E", "M", "A">>,
     TABLE |-> <<"T", "A", "B", "L", "E">>,
     AUTHORIZATION |-> <<"A", "U", "T", "H", "O", "R", "I", "Z", "A", "T", "I", "O", "N">>,
     CASCADE |-> <<"C", "A", "S", "C", "A", "D", "E">>,
     RESTRICT |-> <<"R", "E", "S", "T", "R", "I", "C", "T">>,
     GLOBAL_TEMPORARY |-> <<"G", "L", "O", "B", "A", "L", " ", "T", "E", "M", "P", "O", "R", "A", "R", "Y">>,
     LOCAL_TEMPORARY |-> <<"L", "O", "C", "A", "L", " ", "T", "E", "M", "P", "O", "R", "A", "R", "Y">>,
     MODULE_QUALIFIER |-> <<"M", "O", "D", "U", "L", "E">>]

(***************************************************************************)
(* The values of the AST (common.rs, ansi/ast/*.rs,                        *)
(* ansi/statements/create_table.rs).                                       *)
(***************************************************************************)
Ident(value, quote_style) == [tag |-> "Ident", value |-> value, quote_style |-> quote_style]

SchemaName(opt_catalog_name, name) ==
    [tag |-> "SchemaName", opt_catalog_name |-> opt_catalog_name, name |-> name]

TableName(opt_local_or_schema, name) ==
    [tag |-> "TableName", opt_local_or_schema |-> opt_local_or_schema, name |-> name]

LocalQualifierModule == [tag |-> "LocalQualifier", local |-> "Module"]
QualifierSchema(s) == [tag |-> "Schema", schema |-> s]

\* the values of the DataType enum: the payload field depends on the variant
DtLen(variant, opt_len) == [tag |-> "DataType", variant |-> variant, opt_len |-> opt_len]
DtLob(variant, opt_lob) == [tag |-> "DataType", variant |-> variant, opt_lob |-> opt_lob]
DtBlob(variant, opt_lol) == [tag |-> "DataType", variant |-> variant, opt_lol |-> opt_lol]
DtOptN(variant, opt_n) == [tag |-> "DataType", variant |-> variant, opt_n |-> opt_n]
DtExact(variant, info) == [tag |-> "DataType", variant |-> variant, info |-> info]
DtPlain(variant) == [tag |-> "DataType", variant |-> variant]
DtTime(variant, opt_n, tz) == [tag |-> "DataType", variant |-> variant, opt_n |-> opt_n, tz |-> tz]

CharacterLength(length, opt_units) ==
    [tag |-> "CharacterLength", length |-> length, opt_units |-> opt_units]
LargeObjectLength(length, multiplier) ==
    [tag |-> "LargeObjectLength", length |-> length, multiplier |-> multiplier]
CharacterLargeObjectLength(length, opt_units) ==
    [tag |-> "CharacterLargeObjectLength", length |-> length, opt_units |-> opt_units]

ExactNone == [tag |-> "ExactNumberInfo", state |-> "None"]
ExactPrecision(p) == [tag |-> "ExactNumberInfo", state |-> "Precision", precision |-> p]
ExactPrecisionAndScale(p, s) ==
    [tag |-> "ExactNumberInfo", state |-> "PrecisionAndScale", precision |-> p, scale |-> s]

\* an Option of a u32 written None | SomeN(n)
OptN(o) == IF o.tag = "None" THEN None ELSE o.v

\* a variant of a fieldless enum: CharLengthUnits, Multiplier,
\* WithOrWithoutTimeZone, DropBehavior, TableScope
Named(id) == [tag |-> "Named", id |-> id]

ColumnDefinition(column_name, opt_data_type) ==
    [tag |-> "ColumnDefinition", column_name |-> column_name, opt_data_type |-> opt_data_type]

ClauseSimple(schema) == [tag |-> "SchemaNameClause", variant |-> "Simple", schema |-> schema]
ClauseAuthorization(authorization) ==
    [tag |-> "SchemaNameClause", variant |-> "Authorization", authorization |-> authorization]
ClauseNamedAuthorization(schema, authorization) ==
    [tag |-> "SchemaNameClause", variant |-> "NamedAuthorization", schema |-> schema,
     authorization |-> authorization]

CreateSchema(schema_name_clause) ==
    [tag |-> "CreateSchema", schema_name_clause |-> schema_name_clause]
DropSchema(schema, drop) ==
    [tag |-> "DropSchema", schema_name |-> schema, drop_behavior |-> drop]
DropTable(table, drop) ==
    [tag |-> "DropTable", table_name |-> table, drop_behavior |-> drop]
CreateTable(opt_table_scope, table, table_contents_source) ==
    [tag |-> "CreateTable", opt_table_scope |-> opt_table_scope, table_name |-> table,
     table_contents_source |-> table_contents_source]

\* TableElementList::new: the list is copied as it is given
TableElementList(element_list) == [tag |-> "TableElementList", element_list |-> element_list]

\* #[derive(Default)] of TableElementList: the default of Vec, no element
TableElementListDefault == TableElementList(<<>>)

(***************************************************************************)
(* The closures and constructors the parsers give to map, and the code     *)
(* that follows the `?` of a parser function: f names the closure, arg is  *)
(* the enum variant it builds where it builds one, v is the parsed value.  *)
(***************************************************************************)
Apply(f, arg, v) ==
    CASE f = "Ident::new_quoted" -> Ident(v, "DoubleQuote")
      [] f = "Ident::new" -> Ident(v[2], "None")
      [] f = "SchemaName::new(Some(catalog), schema)" -> SchemaName(SomeV(v[1]), v[2])
      [] f = "SchemaName::new(None, schema)" -> SchemaName(None, v)
      [] f = "TableName" -> TableName(v[1], v[2])
      [] f = "LocalQualifier::Module" -> LocalQualifierModule
      [] f = "LocalOrSchemaQualifier::LocalQualifier" -> v
      [] f = "LocalOrSchemaQualifier::Schema" -> QualifierSchema(v)
      [] f = "ColumnDefinition" -> ColumnDefinition(v[1], v[2])
      [] f = "variant" -> Named(arg)
      [] f = "opt_character_length" ->
            IF v.tag = "None" THEN None ELSE SomeV(CharacterLength(v.v[1].n, v.v[2]))
      [] f = "CharacterLargeObjectLength" -> CharacterLargeObjectLength(v[1], v[2])
      [] f = "LargeObjectLength" -> LargeObjectLength(v[1].n, v[2])
      [] f = "ExactNumberInfo::PrecisionAndScale" -> ExactPrecisionAndScale(v[1].n, v[2].n)
      [] f = "ExactNumberInfo::Precision" -> ExactPrecision(v.n)
      [] f = "ExactNumberInfo::None" -> ExactNone
      [] f = "DataType(Option<CharacterLength>)" -> DtLen(arg, v)
      [] f = "DataType(Option<CharacterLargeObjectLength>)" -> DtLob(arg, v)
      [] f = "DataType(Option<LargeObjectLength>)" -> DtBlob(arg, v)
      [] f = "DataType(Option<u32>)" -> DtOptN(arg, OptN(v))
      [] f = "DataType(ExactNumberInfo)" -> DtExact(arg, v)
      [] f = "DataType" -> DtPlain(arg)
      [] f = "DataType(precision, tz_info)" -> DtTime(arg, OptN(v[1]), v[2].id)
      [] f = "SchemaNameClause::NamedAuthorization" -> ClauseNamedAuthorization(v[1], v[2])
      [] f = "SchemaNameClause::Authorization" -> ClauseAuthorization(v)
      [] f = "SchemaNameClause::Simple" -> ClauseSimple(v)
      [] f = "CreateSchema" -> CreateSchema(v)
      [] f = "DropSchema" -> DropSchema(v[1], v[2].id)
      [] f = "DropTable" -> DropTable(v[1], v[2].id)
      [] f = "CreateTable" -> CreateTable(v[1], v[2], v[3])
      [] f = "TableElementList::new" -> TableElementList(v)
      [] f = "TableElement::ColumnDefinition" -> v
      [] f = "TableContentsSource::TableElementList" -> v
      [] f = "Statement" -> v

(***************************************************************************)
(* nom.  A parser is a record that describes it, as the combinator calls   *)
(* of the source build it; run applies a parser to a text.                 *)
(***************************************************************************)
tag(t) == [kind |-> "tag", t |-> t]
\* tag_no_case that compares the characters as they are
tag_no_case_exact(t) == [kind |-> "tag", t |-> t]
tag_no_case(t) == [kind |-> "tag_no_case", t |-> t]
take_while(cond) == [kind |-> "take_while", cond |-> cond, min |-> 0]
take_while1(cond) == [kind |-> "take_while", cond |-> cond, min |-> 1]
multispace0 == take_while("is_multispace")
multispace1 == take_while1("is_multispace")
alpha1 == take_while1("is_alphabetic")
line_ending == [kind |-> "line_ending"]
eof == [kind |-> "eof"]
u32 == [kind |-> "u32"]

alt(ps) == [kind |-> "alt", ps |-> ps]
opt(p) == [kind |-> "opt", p |-> p]
\* peek that consumes what it looks at
peek_consuming(p) == p
peek(p) == [kind |-> "peek", p |-> p]
map(p, f, arg) == [kind |-> "map", p |-> p, f |-> f, arg |-> arg]
permutation(ps) == [kind |-> "permutation", ps |-> ps]
separated_list1(sep, p) == [kind |-> "separated_list1", sep |-> sep, p |-> p]

\* the parsers of ps one after the other; the value is that of the parser
\* keep[1] when single, and the tuple of the values of keep otherwise
Sequence(ps, keep, single) == [kind |-> "sequence", ps |-> ps, keep |-> keep, single |-> single]
tuple(ps) == Sequence(ps, [k \in 1..Len(ps) |-> k], FALSE)
pair(first, second) == tuple(<<first, second>>)
separated_pair(first, sep, second) == Sequence(<<first, sep, second>>, <<1, 3>>, FALSE)
preceded(first, second) == Sequence(<<first, second>>, <<2>>, TRUE)
terminated(first, second) == Sequence(<<first, second>>, <<1>>, TRUE)
delimited(first, second, third) == Sequence(<<first, second, third>>, <<2>>, TRUE)

Satisfies(cond, c) ==
    CASE cond = "is_whitespace" -> is_whitespace(c)
      [] cond = "is_multispace" -> is_multispace(c)
      [] cond = "is_alphabetic" -> is_alphabetic(c)
      [] cond = "is_sql_identifier" -> is_sql_identifier(c)

\* length of the longest prefix of i whose characters satisfy cond
RECURSIVE RunLength(_, _)
RunLength(cond, i) ==
    IF i # <<>> /\ Satisfies(cond, Head(i)) THEN 1 + RunLength(cond, Tail(i)) ELSE 0

\* a u32 on two decimal limbs: hi * Limb + lo
U32(hi, lo) == [hi |-> hi, lo |-> lo]

\* value * 10 + d on the two limbs
U32Push(value, d) ==
    U32(value.hi * 10 + ((value.lo * 10 + d) \div Limb), (value.lo * 10 + d) % Limb)

\* a signed 32-bit range: a value above 2147483647 is out of range
U32OverflowsAboveI32(value) ==
    value.hi > 21474 \/ (value.hi = 21474 /\ value.lo > 83647)

\* unchecked arithmetic: no value is out of range
U32NeverOverflows(value) == FALSE

U32Overflows(value) ==
    value.hi > U32MaxHi \/ (value.hi = U32MaxHi /\ value.lo > U32MaxLo)

\* u32: at least one digit; a value that leaves the u32 range is an error
\* at the start of the digits
RECURSIVE U32Acc(_, _, _)
U32Acc(orig, i, value) ==
    IF i = <<>> \/ ~is_digit(Head(i))
    THEN Ok(i, SomeN(value))
    ELSE IF U32Overflows(U32Push(value, DigitMap[Head(i)]))
         THEN Err(orig)
         ELSE U32Acc(orig, Tail(i), U32Push(value, DigitMap[Head(i)]))

RECURSIVE run(_, _)
RECURSIVE run_sequence(_, _, _, _)
RECURSIVE run_alt(_, _, _)
RECURSIVE run_separated_list1(_, _, _, _)
RECURSIVE run_alt_without_backtracking(_, _, _)

\* sequence: the first error ends it
run_sequence(ps, k, i, vals) ==
    IF k > Len(ps) THEN Ok(i, vals)
    ELSE LET r == run(ps[k], i)
         IN  IF r.ok THEN run_sequence(ps, k + 1, r.rest, Append(vals, r.val)) ELSE r

\* alt that tries the next alternative where the failed one stopped
run_alt_without_backtracking(ps, k, i) ==
    LET r == run(ps[k], i)
    IN  IF r.ok \/ k = Len(ps) THEN r ELSE run_alt_without_backtracking(ps, k + 1, r.rest)

\* alt: the first success; when every alternative fails, the error of the
\* last one (Error::or keeps the later error, Error::append keeps it too)
run_alt(ps, k, i) ==
    LET r == run(ps[k], i)
    IN  IF r.ok \/ k = Len(ps) THEN r ELSE run_alt(ps, k + 1, i)

\* the loop of separated_list1: a separator or an element that fails ends
\* the list before the separator
run_separated_list1(sep, p, i, acc) ==
    LET s == run(sep, i)
        e == run(p, s.rest)
    IN  IF ~s.ok THEN Ok(i, acc)
        ELSE IF ~e.ok THEN Ok(i, acc)
        ELSE run_separated_list1(sep, p, e.rest, Append(acc, e.val))

run(p, i) ==
    CASE p.kind = "tag" ->
            IF Len(i) >= Len(p.t) /\ Take(i, Len(p.t)) = p.t
            THEN Ok(Drop(i, Len(p.t)), p.t)
            ELSE Err(i)
      [] p.kind = "tag_no_case" ->
            IF Len(i) >= Len(p.t) /\ \A k \in 1..Len(p.t) : ToUpper(i[k]) = ToUpper(p.t[k])
            THEN Ok(Drop(i, Len(p.t)), Take(i, Len(p.t)))
            ELSE Err(i)
      [] p.kind = "take_while" ->
            LET n == RunLength(p.cond, i)
            IN  IF n < p.min THEN Err(i) ELSE Ok(Drop(i, n), Take(i, n))
      [] p.kind = "line_ending" ->
            IF Len(i) >= 1 /\ Take(i, 1) = <<"\n">> THEN Ok(Drop(i, 1), Take(i, 1))
            ELSE IF Len(i) >= 2 /\ Take(i, 2) = <<"\r", "\n">> THEN Ok(Drop(i, 2), Take(i, 2))
            ELSE Err(i)
      [] p.kind = "eof" -> IF i = <<>> THEN Ok(i, i) ELSE Err(i)
      [] p.kind = "u32" ->
            IF i = <<>> \/ ~is_digit(Head(i)) THEN Err(i) ELSE U32Acc(i, i, U32(0, 0))
      [] p.kind = "sequence" ->
            LET r == run_sequence(p.ps, 1, i, <<>>)
            IN  IF ~r.ok THEN r
                ELSE IF p.single THEN Ok(r.rest, r.val[p.keep[1]])
                ELSE Ok(r.rest, [k \in 1..Len(p.keep) |-> r.val[p.keep[k]]])
      [] p.kind = "alt" -> run_alt(p.ps, 1, i)
      [] p.kind = "opt" ->
            LET r == run(p.p, i)
            IN  IF r.ok THEN Ok(r.rest, SomeV(r.val)) ELSE Ok(i, None)
      [] p.kind = "peek" ->
            LET r == run(p.p, i)
            IN  IF r.ok THEN Ok(i, r.val) ELSE r
      [] p.kind = "map" ->
            LET r == run(p.p, i)
            IN  IF r.ok THEN Ok(r.rest, Apply(p.f, p.arg, r.val)) ELSE r
      [] p.kind = "permutation" ->
            \* two parsers: each round tries the parsers that have not
            \* succeeded yet, in order, on what is left; a round in which
            \* none succeeds gives the error of the last one tried
            LET a1 == run(p.ps[1], i)
                b1 == run(p.ps[2], a1.rest)
                b0 == run(p.ps[2], i)
                a2 == run(p.ps[1], b0.rest)
            IN  IF a1.ok THEN (IF b1.ok THEN Ok(b1.rest, <<a1.val, b1.val>>) ELSE b1)
                ELSE IF ~b0.ok THEN b0
                ELSE IF a2.ok THEN Ok(a2.rest, <<a2.val, b0.val>>)
                ELSE a2
      [] p.kind = "separated_list1" ->
            LET first == run(p.p, i)
            IN  IF ~first.ok THEN first
                ELSE run_separated_list1(p.sep, p.p, first.rest, <<first.val>>)

(***************************************************************************)
(* Tokens and whitespace combinators (common/tokens.rs, common/parsers.rs) *)
(***************************************************************************)
left_paren == tag(<<"(">>)
right_paren == tag(<<")">>)
comma == tag(<<",">>)
period == tag(<<".">>)

whitespace0 == take_while("is_whitespace")
whitespace1 == take_while1("is_whitespace")

delimited_ws0(first) == delimited(whitespace0, first, whitespace0)
preceded_ws0(parser) == preceded(whitespace0, parser)
terminated_ws0(parser) == terminated(parser, whitespace0)
preceded_ws1(parser) == preceded(whitespace1, parser)
paren_delimited(parser) ==
    delimited(terminated_ws0(left_paren), parser, preceded_ws0(right_paren))

\* statement_terminator without the whitespace after the terminator
statement_terminator_keeping_trailing_whitespace ==
    preceded(whitespace0, alt(<<tag(<<";">>), line_ending, eof>>))

statement_terminator ==
    delimited(whitespace0, alt(<<tag(<<";">>), line_ending, eof>>), whitespace0)

\* ident with an unquoted form that may begin with any identifier character
ident_any_first_character ==
    LET double_quoted_parse ==
            map(delimited(tag(<<"\"">>), take_while1("is_sql_identifier"), tag(<<"\"">>)),
                "Ident::new_quoted", Unit)
        unquoted ==
            map(permutation(<<peek(take_while1("is_sql_identifier")),
                              take_while1("is_sql_identifier")>>),
                "Ident::new", Unit)
    IN  alt(<<double_quoted_parse, unquoted>>)

ident ==
    LET double_quoted_parse ==
            map(delimited(tag(<<"\"">>), take_while1("is_sql_identifier"), tag(<<"\"">>)),
                "Ident::new_quoted", Unit)
        unquoted ==
            map(permutation(<<peek(alpha1), take_while1("is_sql_identifier")>>),
                "Ident::new", Unit)
    IN  alt(<<double_quoted_parse, unquoted>>)

(***************************************************************************)
(* Qualified names (ansi/parser/common.rs).                                *)
(***************************************************************************)
\* a schema name that drops a third part instead of leaving it
schema_name_truncating ==
    terminated(
        alt(<<map(tuple(<<terminated(ident, period), ident>>),
                  "SchemaName::new(Some(catalog), schema)", Unit),
              map(ident, "SchemaName::new(None, schema)", Unit)>>),
        opt(tuple(<<period, ident>>)))

schema_name ==
    alt(<<map(tuple(<<terminated(ident, period), ident>>),
              "SchemaName::new(Some(catalog), schema)", Unit),
          map(ident, "SchemaName::new(None, schema)", Unit)>>)

\* the schema of a qualified name taken without the lookahead
schema_without_peek ==
    alt(<<map(tuple(<<terminated(ident, period), ident>>),
              "SchemaName::new(Some(catalog), schema)", Unit),
          map(ident, "SchemaName::new(None, schema)", Unit)>>)

schema_for_qualified_table_name ==
    alt(<<map(terminated(tuple(<<terminated(ident, period), ident>>),
                         peek(tuple(<<period, ident>>))),
              "SchemaName::new(Some(catalog), schema)", Unit),
          map(terminated(ident, peek(tuple(<<period, ident>>))),
              "SchemaName::new(None, schema)", Unit)>>)

local_qualifier == map(tag_no_case(KW.MODULE_QUALIFIER), "LocalQualifier::Module", Unit)

\* the alternation with the schema before the local qualifier
schema_or_local_qualifier ==
    alt(<<map(schema_for_qualified_table_name, "LocalOrSchemaQualifier::Schema", Unit),
          map(local_qualifier, "LocalOrSchemaQualifier::LocalQualifier", Unit)>>)

local_or_schema_qualifier ==
    alt(<<map(local_qualifier, "LocalOrSchemaQualifier::LocalQualifier", Unit),
          map(schema_for_qualified_table_name, "LocalOrSchemaQualifier::Schema", Unit)>>)

table_name ==
    map(tuple(<<opt(terminated(local_or_schema_qualifier, period)), ident>>),
        "TableName", Unit)

(***************************************************************************)
(* Data types (ansi/parser/data_types.rs).                                 *)
(***************************************************************************)
multiplier ==
    alt(<<map(tag_no_case(<<"K">>), "variant", "K"),
          map(tag_no_case(<<"M">>), "variant", "M"),
          map(tag_no_case(<<"G">>), "variant", "G"),
          map(tag_no_case(<<"T">>), "variant", "T"),
          map(tag_no_case(<<"P">>), "variant", "P")>>)

char_length_units ==
    alt(<<map(tag_no_case(KW.OCTETS), "variant", "Octets"),
          map(tag_no_case(KW.CHARACTERS), "variant", "Characters")>>)

opt_character_length ==
    map(opt(paren_delimited(pair(u32, opt(preceded_ws1(char_length_units))))),
        "opt_character_length", Unit)

large_object_length == map(pair(u32, opt(multiplier)), "LargeObjectLength", Unit)

character_large_object_length ==
    map(tuple(<<large_object_length, opt(preceded_ws1(char_length_units))>>),
        "CharacterLargeObjectLength", Unit)

\* exact_number_info without the alternative that matches the empty text
exact_number_info_without_none ==
    alt(<<map(paren_delimited(separated_pair(u32, delimited_ws0(comma), u32)),
              "ExactNumberInfo::PrecisionAndScale", Unit),
          map(paren_delimited(u32), "ExactNumberInfo::Precision", Unit)>>)

exact_number_info ==
    alt(<<map(paren_delimited(separated_pair(u32, delimited_ws0(comma), u32)),
              "ExactNumberInfo::PrecisionAndScale", Unit),
          map(paren_delimited(u32), "ExactNumberInfo::Precision", Unit),
          map(tag(<<>>), "ExactNumberInfo::None", Unit)>>)

with_or_without_timezone ==
    alt(<<map(preceded_ws1(tag_no_case(KW.WITHOUT_TIME_ZONE)), "variant", "WithoutTimeZone"),
          map(preceded_ws1(tag_no_case(KW.WITH_TIME_ZONE)), "variant", "WithTimeZone"),
          map(tag(<<>>), "variant", "None")>>)

character_string ==
    LET variant(keyword, name) ==
            map(preceded(terminated_ws0(tag_no_case(keyword)), opt_character_length),
                "DataType(Option<CharacterLength>)", name)
    IN  alt(<<variant(KW.CHARACTER_VARYING, "CharacterVarying"),
              variant(KW.CHAR_VARYING, "CharVarying"),
              variant(KW.CHARACTER, "Character"),
              variant(KW.VARCHAR, "Varchar"),
              variant(KW.CHAR, "Char")>>)

character_large_object_types ==
    LET variant(keyword, name) ==
            map(preceded(tag_no_case(keyword),
                         opt(paren_delimited(character_large_object_length))),
                "DataType(Option<CharacterLargeObjectLength>)", name)
    IN  alt(<<variant(KW.CHARACTER_LARGE_OBJECT, "CharacterLargeObject"),
              variant(KW.CHAR_LARGE_OBJECT, "CharLargeObject"),
              variant(KW.CLOB, "Clob")>>)

binary_string_types ==
    LET large_object(keyword, name) ==
            map(preceded(tag_no_case(keyword),
                         opt(preceded_ws0(paren_delimited(large_object_length)))),
                "DataType(Option<LargeObjectLength>)", name)
        binary(keyword, name) ==
            map(preceded(tag_no_case(keyword), opt(preceded_ws0(paren_delimited(u32)))),
                "DataType(Option<u32>)", name)
    IN  alt(<<large_object(KW.BINARY_LARGE_OBJECT, "BinaryLargeObject"),
              large_object(KW.BLOB, "Blob"),
              binary(KW.VARBINARY, "Varbinary"),
              binary(KW.BINARY_VARYING, "BinaryVarying"),
              binary(KW.BINARY, "Binary")>>)

exact_numeric_type ==
    LET with_info(keyword, name) ==
            map(preceded(tag_no_case(keyword), exact_number_info),
                "DataType(ExactNumberInfo)", name)
    IN  alt(<<with_info(KW.DECIMAL, "Decimal"),
              with_info(KW.NUMERIC, "Numeric"),
              with_info(KW.DEC, "Dec"),
              map(tag_no_case(KW.SMALLINT), "DataType", "Smallint"),
              map(tag_no_case(KW.INTEGER), "DataType", "Integer"),
              map(tag_no_case(KW.BIGINT), "DataType", "Bigint"),
              map(tag_no_case(KW.INT), "DataType", "Int")>>)

approximate_numeric_type ==
    alt(<<map(tag_no_case(KW.FLOAT), "DataType", "Float"),
          map(tag_no_case(KW.REAL), "DataType", "Real"),
          map(tag_no_case(KW.DOUBLE_PRECISION), "DataType", "DoublePrecision")>>)

decimal_floating_point_type ==
    map(preceded(tag_no_case(KW.DECFLOAT), opt(preceded_ws0(paren_delimited(u32)))),
        "DataType(Option<u32>)", "DecFloat")

boolean_type == map(tag_no_case(KW.BOOLEAN_TYPE), "DataType", "Boolean")

datetime_type ==
    LET with_precision(keyword, name) ==
            map(preceded(tag_no_case(keyword),
                         tuple(<<opt(paren_delimited(u32)), with_or_without_timezone>>)),
                "DataType(precision, tz_info)", name)
    IN  alt(<<map(tag_no_case(KW.DATE), "DataType", "Date"),
              with_precision(KW.TIMESTAMP, "Timestamp"),
              with_precision(KW.TIME, "Time")>>)

\* the alternation with the character strings before the large objects
data_type_character_string_first ==
    alt(<<character_string,
          character_large_object_types,
          binary_string_types,
          decimal_floating_point_type,
          exact_numeric_type,
          approximate_numeric_type,
          boolean_type,
          datetime_type>>)

data_type ==
    alt(<<character_large_object_types,
          character_string,
          binary_string_types,
          decimal_floating_point_type,
          exact_numeric_type,
          approximate_numeric_type,
          boolean_type,
          datetime_type>>)

(***************************************************************************)
(* Statements (ansi/parser/common.rs, create_schema.rs, drop_schema.rs,    *)
(* drop_table.rs, create_table.rs, ansi/parser.rs).                        *)
(***************************************************************************)
\* column_definition with the data type parsed and dropped: the second
\* parser of the pair gives None wherever a data type can end
column_definition_without_type ==
    map(tuple(<<ident, preceded(opt(preceded(multispace1, data_type)), opt(tag(<<"\"">>)))>>),
        "ColumnDefinition", Unit)

column_definition ==
    map(tuple(<<ident, opt(preceded(multispace1, data_type))>>), "ColumnDefinition", Unit)

\* drop_behavior with the behaviour optional, RESTRICT where it is not written
drop_behavior_or_default ==
    alt(<<map(tag_no_case(KW.CASCADE), "variant", "Cascade"),
          map(tag_no_case(KW.RESTRICT), "variant", "Restrict"),
          map(tag(<<>>), "variant", "Restrict")>>)

drop_behavior ==
    alt(<<map(tag_no_case(KW.CASCADE), "variant", "Cascade"),
          map(tag_no_case(KW.RESTRICT), "variant", "Restrict")>>)

\* the alternatives of schema_name_clause with the simple form tried first
schema_name_clause_simple_first ==
    alt(<<map(schema_name, "SchemaNameClause::Simple", Unit),
          map(tuple(<<terminated(schema_name,
                                 tuple(<<multispace1, tag_no_case(KW.AUTHORIZATION),
                                         multispace1>>)),
                      ident>>),
              "SchemaNameClause::NamedAuthorization", Unit),
          map(preceded(tuple(<<tag_no_case(KW.AUTHORIZATION), multispace1>>), ident),
              "SchemaNameClause::Authorization", Unit)>>)

schema_name_clause ==
    alt(<<map(tuple(<<terminated(schema_name,
                                 tuple(<<multispace1, tag_no_case(KW.AUTHORIZATION),
                                         multispace1>>)),
                      ident>>),
              "SchemaNameClause::NamedAuthorization", Unit),
          map(preceded(tuple(<<tag_no_case(KW.AUTHORIZATION), multispace1>>), ident),
              "SchemaNameClause::Authorization", Unit),
          map(schema_name, "SchemaNameClause::Simple", Unit)>>)

\* create_schema that succeeds on a text that is no CREATE SCHEMA statement
create_schema_or_nothing ==
    map(opt(delimited(tuple(<<tag_no_case(KW.CREATE), multispace1,
                              tag_no_case(KW.SCHEMA), multispace1>>),
                      schema_name_clause,
                      statement_terminator)),
        "CreateSchema", Unit)

create_schema ==
    map(delimited(tuple(<<tag_no_case(KW.CREATE), multispace1,
                          tag_no_case(KW.SCHEMA), multispace1>>),
                  schema_name_clause,
                  statement_terminator),
        "CreateSchema", Unit)

drop_schema ==
    map(delimited(tuple(<<tag_no_case(KW.DROP), multispace1,
                          tag_no_case(KW.SCHEMA), multispace1>>),
                  tuple(<<terminated(schema_name, multispace1), drop_behavior>>),
                  statement_terminator),
        "DropSchema", Unit)

\* drop_table that takes the keyword SCHEMA for TABLE as well
drop_table_or_schema ==
    map(delimited(tuple(<<tag_no_case(KW.DROP), multispace1,
                          alt(<<tag_no_case(KW.TABLE), tag_no_case(KW.SCHEMA)>>), multispace1>>),
                  tuple(<<terminated(table_name, multispace1), drop_behavior>>),
                  statement_terminator),
        "DropTable", Unit)

drop_table ==
    map(delimited(tuple(<<tag_no_case(KW.DROP), multispace1,
                          tag_no_case(KW.TABLE), multispace1>>),
                  tuple(<<terminated(table_name, multispace1), drop_behavior>>),
                  statement_terminator),
        "DropTable", Unit)

table_scope ==
    alt(<<map(tag_no_case(KW.GLOBAL_TEMPORARY), "variant", "Global"),
          map(tag_no_case(KW.LOCAL_TEMPORARY), "variant", "Local")>>)

table_element == alt(<<map(column_definition, "TableElement::ColumnDefinition", Unit)>>)

\* table_element_list with a list of zero or more elements
table_element_list_possibly_empty ==
    map(delimited(tuple(<<left_paren, multispace0>>),
                  alt(<<separated_list1(tuple(<<multispace0, comma, multispace0>>),
                                        table_element),
                        tag(<<>>)>>),
                  tuple(<<multispace0, right_paren>>)),
        "TableElementList::new", Unit)

table_element_list ==
    map(delimited(tuple(<<left_paren, multispace0>>),
                  separated_list1(tuple(<<multispace0, comma, multispace0>>), table_element),
                  tuple(<<multispace0, right_paren>>)),
        "TableElementList::new", Unit)

table_contents_source ==
    alt(<<map(table_element_list, "TableContentsSource::TableElementList", Unit)>>)

\* create_table with any whitespace, none included, before the element list
create_table_without_gap ==
    map(tuple(<<preceded(tag_no_case(KW.CREATE), opt(preceded(multispace1, table_scope))),
                preceded(delimited(multispace1, tag_no_case(KW.TABLE), multispace1),
                         table_name),
                delimited(multispace0, table_contents_source, statement_terminator)>>),
        "CreateTable", Unit)

create_table ==
    map(tuple(<<preceded(tag_no_case(KW.CREATE), opt(preceded(multispace1, table_scope))),
                preceded(delimited(multispace1, tag_no_case(KW.TABLE), multispace1),
                         table_name),
                delimited(multispace1, table_contents_source, statement_terminator)>>),
        "CreateTable", Unit)

\* the statement parsers in the order the top-level alternation tries them
Alternatives == <<create_schema, drop_schema, drop_table, create_table>>

\* the top-level alternation over the statements of schemas only
parse_statement_schemas_only ==
    alt(<<map(create_schema, "Statement", Unit),
          map(drop_schema, "Statement", Unit)>>)

\* the top-level alternation in the order CreateSchema, DropSchema, DropTable,
\* CreateTable
parse_statement ==
    alt(<<map(create_schema, "Statement", Unit),
          map(drop_schema, "Statement", Unit),
          map(drop_table, "Statement", Unit),
          map(create_table, "Statement", Unit)>>)

(***************************************************************************)
(* Rendering: the Display implementations of the AST.                      *)
(***************************************************************************)
\* the decimal digits of a number below Limb, without leading zeros
RECURSIVE DisplayNat(_)
DisplayNat(n) ==
    IF n < 10 THEN <<DigitSeq[n + 1]>>
    ELSE DisplayNat(n \div 10) \o <<DigitSeq[(n % 10) + 1]>>

\* the low limb below a non-zero high limb: five digits, zeros included
DisplayLowLimb(n) ==
    <<DigitSeq[(n \div 10000) + 1], DigitSeq[((n \div 1000) % 10) + 1],
      DigitSeq[((n \div 100) % 10) + 1], DigitSeq[((n \div 10) % 10) + 1],
      DigitSeq[(n % 10) + 1]>>

DisplayU32(n) ==
    IF n.hi = 0 THEN DisplayNat(n.lo) ELSE DisplayNat(n.hi) \o DisplayLowLimb(n.lo)

\* an identifier is written as it was read: the value, between double quotes
\* when the quote style is DoubleQuote
DisplayIdent(id) ==
    IF id.quote_style = "DoubleQuote" THEN <<"\"">> \o id.value \o <<"\"">> ELSE id.value

DisplayCharLengthUnits(u) == IF u.id = "Characters" THEN KW.CHARACTERS ELSE KW.OCTETS

DisplayMultiplier(m) == <<m.id>>

DisplayCharacterLength(l) ==
    DisplayU32(l.length)
        \o (IF l.opt_units.tag = "Some"
            THEN <<" ">> \o DisplayCharLengthUnits(l.opt_units.v) ELSE <<>>)

\* a rendering that loses the multiplier
DisplayLargeObjectLengthWithoutMultiplier(l) == DisplayU32(l.length)

DisplayLargeObjectLength(l) ==
    DisplayU32(l.length)
        \o (IF l.multiplier.tag = "Some" THEN DisplayMultiplier(l.multiplier.v) ELSE <<>>)

DisplayCharacterLargeObjectLength(l) ==
    DisplayLargeObjectLength(l.length)
        \o (IF l.opt_units.tag = "Some"
            THEN <<" ">> \o DisplayCharLengthUnits(l.opt_units.v) ELSE <<>>)

\* a rendering that writes the precision only
DisplayExactNumberInfoPrecisionOnly(e) ==
    IF e.state = "None" THEN <<>> ELSE <<"(">> \o DisplayU32(e.precision) \o <<")">>

DisplayExactNumberInfo(e) ==
    IF e.state = "None" THEN <<>>
    ELSE IF e.state = "Precision" THEN <<"(">> \o DisplayU32(e.precision) \o <<")">>
    ELSE <<"(">> \o DisplayU32(e.precision) \o <<",", " ">> \o DisplayU32(e.scale) \o <<")">>

DisplayWithOrWithoutTimeZone(tz) ==
    IF tz = "WithTimeZone" THEN KW.WITH_TIME_ZONE
    ELSE IF tz = "WithoutTimeZone" THEN KW.WITHOUT_TIME_ZONE
    ELSE <<>>

Parenthesized(t) == <<"(">> \o t \o <<")">>

\* the binary string types are written like the other types: the keyword,
\* then the length between parentheses when there is one
DisplayBinaryDataType(d) ==
    CASE d.variant = "Binary" ->
            KW.BINARY \o (IF d.opt_n.tag = "Some" THEN Parenthesized(DisplayU32(d.opt_n.n)) ELSE <<>>)
      [] d.variant = "BinaryVarying" ->
            KW.BINARY_VARYING
                \o (IF d.opt_n.tag = "Some" THEN Parenthesized(DisplayU32(d.opt_n.n)) ELSE <<>>)
      [] d.variant = "Varbinary" ->
            KW.VARBINARY
                \o (IF d.opt_n.tag = "Some" THEN Parenthesized(DisplayU32(d.opt_n.n)) ELSE <<>>)
      [] d.variant = "BinaryLargeObject" ->
            KW.BINARY_LARGE_OBJECT
                \o (IF d.opt_lol.tag = "Some"
                    THEN Parenthesized(DisplayLargeObjectLength(d.opt_lol.v)) ELSE <<>>)
      [] d.variant = "Blob" ->
            KW.BLOB
                \o (IF d.opt_lol.tag = "Some"
                    THEN Parenthesized(DisplayLargeObjectLength(d.opt_lol.v)) ELSE <<>>)

DisplayCharacterString(kw, d) ==
    kw \o (IF d.opt_len.tag = "Some"
           THEN Parenthesized(DisplayCharacterLength(d.opt_len.v)) ELSE <<>>)

DisplayCharacterLargeObject(kw, d) ==
    kw \o (IF d.opt_lob.tag = "Some"
           THEN Parenthesized(DisplayCharacterLargeObjectLength(d.opt_lob.v)) ELSE <<>>)

DisplayDatetime(kw, d) ==
    kw \o (IF d.opt_n.tag = "Some" THEN Parenthesized(DisplayU32(d.opt_n.n)) ELSE <<>>)
       \o (IF d.tz # "None" THEN <<" ">> \o DisplayWithOrWithoutTimeZone(d.tz) ELSE <<>>)

DisplayDataType(d) ==
    CASE d.variant = "Character" -> DisplayCharacterString(KW.CHARACTER, d)
      [] d.variant = "Char" -> DisplayCharacterString(KW.CHAR, d)
      [] d.variant = "CharacterVarying" -> DisplayCharacterString(KW.CHARACTER_VARYING, d)
      [] d.variant = "CharVarying" -> DisplayCharacterString(KW.CHAR_VARYING, d)
      [] d.variant = "Varchar" -> DisplayCharacterString(KW.VARCHAR, d)
      [] d.variant = "CharacterLargeObject" ->
            DisplayCharacterLargeObject(KW.CHARACTER_LARGE_OBJECT, d)
      [] d.variant = "CharLargeObject" -> DisplayCharacterLargeObject(KW.CHAR_LARGE_OBJECT, d)
      [] d.variant = "Clob" -> DisplayCharacterLargeObject(KW.CLOB, d)
      [] d.variant = "Numeric" -> KW.NUMERIC \o DisplayExactNumberInfo(d.info)
      [] d.variant = "Decimal" -> KW.DECIMAL \o DisplayExactNumberInfo(d.info)
      [] d.variant = "Dec" -> KW.DEC \o DisplayExactNumberInfo(d.info)
      [] d.variant = "DecFloat" ->
            KW.DECFLOAT
                \o (IF d.opt_n.tag = "Some" THEN Parenthesized(DisplayU32(d.opt_n.n)) ELSE <<>>)
      [] d.variant = "Smallint" -> KW.SMALLINT
      [] d.variant = "Integer" -> KW.INTEGER
      [] d.variant = "Int" -> KW.INT
      [] d.variant = "Bigint" -> KW.BIGINT
      [] d.variant = "Float" -> KW.FLOAT
      [] d.variant = "Real" -> KW.REAL
      [] d.variant = "DoublePrecision" -> KW.DOUBLE_PRECISION
      [] d.variant = "Boolean" -> KW.BOOLEAN_TYPE
      [] d.variant = "Date" -> KW.DATE
      [] d.variant = "Time" -> DisplayDatetime(KW.TIME, d)
      [] d.variant = "Timestamp" -> DisplayDatetime(KW.TIMESTAMP, d)
      [] OTHER -> DisplayBinaryDataType(d)

DisplaySchemaName(s) ==
    (IF s.opt_catalog_name.tag = "Some"
     THEN DisplayIdent(s.opt_catalog_name.v) \o <<".">> ELSE <<>>)
        \o DisplayIdent(s.name)

DisplayLocalQualifier(l) == KW.MODULE_QUALIFIER

DisplayLocalOrSchemaQualifier(q) ==
    IF q.tag = "Schema" THEN DisplaySchemaName(q.schema) ELSE DisplayLocalQualifier(q)

DisplayTableName(t) ==
    (IF t.opt_local_or_schema.tag = "Some"
     THEN DisplayLocalOrSchemaQualifier(t.opt_local_or_schema.v) \o <<".">> ELSE <<>>)
        \o DisplayIdent(t.name)

DisplayColumnDefinition(c) ==
    DisplayIdent(c.column_name)
        \o (IF c.opt_data_type.tag = "Some"
            THEN <<" ">> \o DisplayDataType(c.opt_data_type.v) ELSE <<>>)

DisplayDropBehavior(b) == IF b = "Cascade" THEN KW.CASCADE ELSE KW.RESTRICT

DisplaySchemaNameClause(c) ==
    IF c.variant = "Simple" THEN DisplaySchemaName(c.schema)
    ELSE IF c.variant = "Authorization"
         THEN KW.AUTHORIZATION \o <<" ">> \o DisplayIdent(c.authorization)
    ELSE DisplaySchemaName(c.schema) \o <<" ">> \o KW.AUTHORIZATION \o <<" ">>
             \o DisplayIdent(c.authorization)

DisplayCreateSchema(s) ==
    KW.CREATE \o <<" ">> \o KW.SCHEMA \o <<" ">>
        \o DisplaySchemaNameClause(s.schema_name_clause) \o <<";">>

DisplayDropSchema(s) ==
    KW.DROP \o <<" ">> \o KW.SCHEMA \o <<" ">> \o DisplaySchemaName(s.schema_name)
        \o <<" ">> \o DisplayDropBehavior(s.drop_behavior) \o <<";">>

DisplayDropTable(s) ==
    KW.DROP \o <<" ">> \o KW.TABLE \o <<" ">> \o DisplayTableName(s.table_name)
        \o <<" ">> \o DisplayDropBehavior(s.drop_behavior)

DisplayTableScope(sc) == IF sc.id = "Global" THEN KW.GLOBAL_TEMPORARY ELSE KW.LOCAL_TEMPORARY

\* the elements, each written by its Display, joined by ", "
RECURSIVE display_comma_separated(_)
display_comma_separated(list) ==
    IF list = <<>> THEN <<>>
    ELSE IF Len(list) = 1 THEN DisplayColumnDefinition(list[1])
    ELSE DisplayColumnDefinition(list[1]) \o <<",", " ">> \o display_comma_separated(Tail(list))

\* the text of the value after the given prefix, or nothing for no value
if_some_string_preceded_by(opt_scope, prefix) ==
    IF opt_scope.tag = "Some" THEN prefix \o DisplayTableScope(opt_scope.v) ELSE <<>>

DisplayTableElementList(l) == display_comma_separated(l.element_list)

DisplayTableContentsSource(s) == DisplayTableElementList(s)

DisplayCreateTable(s) ==
    KW.CREATE \o if_some_string_preceded_by(s.opt_table_scope, <<" ">>) \o <<" ">> \o KW.TABLE
        \o <<" ">> \o DisplayTableName(s.table_name)
        \o <<" ">> \o DisplayTableContentsSource(s.table_contents_source)

\* each variant of Statement is written by the Display of its statement
DisplayStatement(s) ==
    CASE s.tag = "CreateSchema" -> DisplayCreateSchema(s)
      [] s.tag = "DropSchema" -> DisplayDropSchema(s)
      [] s.tag = "DropTable" -> DisplayDropTable(s)
      [] s.tag = "CreateTable" -> DisplayCreateTable(s)

(***************************************************************************)
(* Inputs.  A form describes a text of the grammar; Text gives its bytes.  *)
(* The literals are those of the tests (tests/ansii_*.rs and the tests of  *)
(* ansi/parser/data_types.rs), varied in casing, spacing and chain depth.  *)
(***************************************************************************)

\* the identifiers of the generated texts
ID ==
    [table_name |-> <<"t", "a", "b", "l", "e", "_", "n", "a", "m", "e">>,
     schema_name |-> <<"s", "c", "h", "e", "m", "a", "_", "n", "a", "m", "e">>,
     catalog_name |-> <<"c", "a", "t", "a", "l", "o", "g", "_", "n", "a", "m", "e">>,
     module_lower |-> <<"m", "o", "d", "u", "l", "e">>,
     modules |-> <<"m", "o", "d", "u", "l", "e", "s">>,
     Module_1 |-> <<"M", "o", "d", "u", "l", "e", "_", "1">>,
     tb |-> <<"t", "b">>,
     quoted |-> <<"\"", "q", "_", "1", "\"">>,
     digit_first |-> <<"1", "s">>,
     user |-> <<"u", "s", "e", "r", "_", "1">>]

\* the first identifier of a dotted chain
IdentPool ==
    {ID.table_name, ID.schema_name, ID.catalog_name, KW.MODULE_QUALIFIER, ID.module_lower, ID.modules,
     ID.Module_1, ID.tb, ID.quoted, ID.digit_first}

\* the first identifiers used where casing, spacing and terminators vary
PlainPool == {ID.table_name, ID.tb}

\* the identifiers between the first and the last of a chain
MidNames == <<ID.schema_name, <<"s", "_", "3">>, <<"s", "_", "4">>, <<"s", "_", "5">>>>

RECURSIVE MidText(_, _)
MidText(k, n) == IF k > n THEN <<>> ELSE MidNames[k] \o <<".">> \o MidText(k + 1, n)

\* a chain of depth identifiers that ends in table_name, with a trailing dot or not
ChainText(first, depth, dot) ==
    (IF depth = 1 THEN first
     ELSE first \o <<".">> \o MidText(1, depth - 2) \o ID.table_name)
        \o (IF dot THEN <<".">> ELSE <<>>)

IsUnquotedIdent(t) ==
    /\ t # <<>>
    /\ is_alphabetic(t[1])
    /\ \A k \in 1..Len(t) : is_sql_identifier(t[k])

IsQuotedIdent(t) ==
    /\ Len(t) >= 3
    /\ t[1] = "\"" /\ t[Len(t)] = "\""
    /\ \A k \in 2..(Len(t) - 1) : is_sql_identifier(t[k])

IsIdent(t) == IsUnquotedIdent(t) \/ IsQuotedIdent(t)

\* the Ident an identifier text stands for
IdentOf(t) ==
    IF IsQuotedIdent(t) THEN Ident(SubSeq(t, 2, Len(t) - 1), "DoubleQuote") ELSE Ident(t, "None")

NameForms ==
    [kind : {"name"}, first : IdentPool, depth : 1..MaxChain, dot : BOOLEAN, tail : {<<>>, <<" ">> \o KW.CASCADE}]

NameText(f) == ChainText(f.first, f.depth, f.dot) \o f.tail

Kw(k, lower) == IF lower THEN LowerText(k) ELSE k

\* the numbers of the generated texts
NUM ==
    [zero |-> <<"0">>,
     seven |-> <<"7">>,
     twenty |-> <<"2", "0">>,
     limb |-> <<"1", "0", "0", "0", "0", "0">>,
     max |-> <<"4", "2", "9", "4", "9", "6", "7", "2", "9", "5">>,
     over |-> <<"4", "2", "9", "4", "9", "6", "7", "2", "9", "6">>]

NumberTexts == {NUM.zero, NUM.seven, NUM.twenty, NUM.limb, NUM.max}
NumberOf(t) ==
    CASE t = NUM.zero -> U32(0, 0)
      [] t = NUM.seven -> U32(0, 7)
      [] t = NUM.twenty -> U32(0, 20)
      [] t = NUM.limb -> U32(1, 0)
      [] t = NUM.max -> U32(U32MaxHi, U32MaxLo)

CharacterStringVariants == {"CharacterVarying", "CharVarying", "Character", "Varchar", "Char"}
CharacterLargeObjectVariants == {"CharacterLargeObject", "CharLargeObject", "Clob"}
BinaryLargeObjectVariants == {"BinaryLargeObject", "Blob"}
OptPrecisionVariants == {"Varbinary", "BinaryVarying", "Binary", "DecFloat"}
ExactInfoVariants == {"Decimal", "Numeric", "Dec"}
PlainVariants ==
    {"Smallint", "Integer", "Bigint", "Int", "Float", "Real", "DoublePrecision", "Boolean", "Date"}
DatetimeVariants == {"Timestamp", "Time"}

KeywordOf(variant) ==
    CASE variant = "CharacterVarying" -> KW.CHARACTER_VARYING
      [] variant = "CharVarying" -> KW.CHAR_VARYING
      [] variant = "Character" -> KW.CHARACTER
      [] variant = "Varchar" -> KW.VARCHAR
      [] variant = "Char" -> KW.CHAR
      [] variant = "CharacterLargeObject" -> KW.CHARACTER_LARGE_OBJECT
      [] variant = "CharLargeObject" -> KW.CHAR_LARGE_OBJECT
      [] variant = "Clob" -> KW.CLOB
      [] variant = "BinaryLargeObject" -> KW.BINARY_LARGE_OBJECT
      [] variant = "Blob" -> KW.BLOB
      [] variant = "Varbinary" -> KW.VARBINARY
      [] variant = "BinaryVarying" -> KW.BINARY_VARYING
      [] variant = "Binary" -> KW.BINARY
      [] variant = "DecFloat" -> KW.DECFLOAT
      [] variant = "Decimal" -> KW.DECIMAL
      [] variant = "Numeric" -> KW.NUMERIC
      [] variant = "Dec" -> KW.DEC
      [] variant = "Smallint" -> KW.SMALLINT
      [] variant = "Integer" -> KW.INTEGER
      [] variant = "Bigint" -> KW.BIGINT
      [] variant = "Int" -> KW.INT
      [] variant = "Float" -> KW.FLOAT
      [] variant = "Real" -> KW.REAL
      [] variant = "DoublePrecision" -> KW.DOUBLE_PRECISION
      [] variant = "Boolean" -> KW.BOOLEAN_TYPE
      [] variant = "Date" -> KW.DATE
      [] variant = "Timestamp" -> KW.TIMESTAMP
      [] variant = "Time" -> KW.TIME

Styles == {"canonical", "lower", "inner", "outer"}
Multipliers == {"K", "M", "G", "T", "P"}
Units == {"Octets", "Characters"}
TimeZones == {"None", "WithTimeZone", "WithoutTimeZone"}

\* a data type text: the keyword of the variant and a suffix of the given
\* shape made of the numbers n1 and n2, a multiplier, units and a time zone
DataTypeForm(variant, shape, n1, n2, mult, units, tz, style) ==
    [kind |-> "data_type", variant |-> variant, shape |-> shape, n1 |-> n1, n2 |-> n2,
     mult |-> mult, units |-> units, tz |-> tz, style |-> style]

DataTypeForms ==
    UNION {
        {DataTypeForm(v, "none", NUM.seven, NUM.seven, "K", "Octets", "None", st) :
            v \in CharacterStringVariants \cup CharacterLargeObjectVariants
                    \cup BinaryLargeObjectVariants \cup OptPrecisionVariants
                    \cup ExactInfoVariants \cup PlainVariants,
            st \in Styles},
        {DataTypeForm(v, "n", n, NUM.seven, "K", "Octets", "None", st) :
            v \in CharacterStringVariants \cup CharacterLargeObjectVariants
                    \cup BinaryLargeObjectVariants \cup OptPrecisionVariants
                    \cup ExactInfoVariants,
            n \in NumberTexts, st \in Styles},
        {DataTypeForm(v, "n_units", n, NUM.seven, "K", u, "None", st) :
            v \in CharacterStringVariants \cup CharacterLargeObjectVariants,
            n \in NumberTexts, u \in Units, st \in Styles},
        {DataTypeForm(v, "n_mult", n, NUM.seven, m, "Octets", "None", st) :
            v \in CharacterLargeObjectVariants \cup BinaryLargeObjectVariants,
            n \in NumberTexts, m \in Multipliers, st \in Styles},
        {DataTypeForm(v, "n_mult_units", n, NUM.seven, m, u, "None", st) :
            v \in CharacterLargeObjectVariants,
            n \in NumberTexts, m \in Multipliers, u \in Units, st \in Styles},
        {DataTypeForm(v, "n_n", n, s, "K", "Octets", "None", st) :
            v \in ExactInfoVariants, n \in NumberTexts, s \in NumberTexts, st \in Styles},
        {DataTypeForm(v, "none", NUM.seven, NUM.seven, "K", "Octets", tz, st) :
            v \in DatetimeVariants, tz \in TimeZones, st \in Styles},
        {DataTypeForm(v, "n", n, NUM.seven, "K", "Octets", tz, st) :
            v \in DatetimeVariants, n \in NumberTexts, tz \in TimeZones, st \in Styles},
        \* a number one above the largest u32, written as the canonical texts are
        {DataTypeForm(v, "n", NUM.over, NUM.seven, "K", "Octets", "None", "overflow") :
            v \in CharacterStringVariants \cup CharacterLargeObjectVariants
                    \cup BinaryLargeObjectVariants \cup OptPrecisionVariants
                    \cup ExactInfoVariants \cup DatetimeVariants},
        {DataTypeForm(v, "n_n", n, NUM.over, "K", "Octets", "None", "overflow") :
            v \in ExactInfoVariants, n \in {NUM.seven, NUM.over}}
    }

UnitsText(f) == Kw(IF f.units = "Octets" THEN KW.OCTETS ELSE KW.CHARACTERS, f.style = "lower")
MultText(f) == Kw(<<f.mult>>, f.style = "lower")
TimeZoneText(f) ==
    IF f.tz = "None" THEN <<>>
    ELSE <<" ">> \o Kw(IF f.tz = "WithTimeZone" THEN KW.WITH_TIME_ZONE
                       ELSE KW.WITHOUT_TIME_ZONE, f.style = "lower")

\* the text between the parentheses
InteriorText(f) ==
    CASE f.shape = "n" -> f.n1
      [] f.shape = "n_units" -> f.n1 \o <<" ">> \o UnitsText(f)
      [] f.shape = "n_mult" -> f.n1 \o MultText(f)
      [] f.shape = "n_mult_units" -> f.n1 \o MultText(f) \o <<" ">> \o UnitsText(f)
      [] f.shape = "n_n" ->
            f.n1 \o (IF f.style = "inner" THEN <<" ">> ELSE <<>>) \o <<",", " ">> \o f.n2

DataTypeText(f) ==
    Kw(KeywordOf(f.variant), f.style = "lower")
        \o (IF f.shape = "none" THEN <<>>
            ELSE (IF f.style = "outer" THEN <<" ">> ELSE <<>>)
                    \o <<"(">> \o (IF f.style = "inner" THEN <<" ">> ELSE <<>>)
                    \o InteriorText(f)
                    \o (IF f.style = "inner" THEN <<" ">> ELSE <<>>) \o <<")">>)
        \o TimeZoneText(f)

\* the column definitions of the generated element lists, in order
ColumnNames == <<<<"i", "d">>, <<"n", "a", "m", "e">>, <<"c", "_", "3">>, <<"c", "_", "4">>>>
ColumnTypes == <<KW.INT, KW.VARCHAR \o <<"(">> \o NUM.twenty \o <<")">>, <<>>, KW.BOOLEAN_TYPE>>

Gaps == {<<" ">>, <<" ", " ">>, <<"\n", "\t">>}
Terminators == {<<";">>, <<>>, <<"\n">>, <<" ", ";">>}

StatementForm(stmt, first, depth, dot, clause, behavior, scope, cols, lower, gap, term) ==
    [kind |-> "statement", stmt |-> stmt, first |-> first, depth |-> depth, dot |-> dot,
     clause |-> clause, behavior |-> behavior, scope |-> scope, cols |-> cols,
     lower |-> lower, gap |-> gap, term |-> term]

\* stands for the byte 0xFF, which is no ASCII character and no UTF-8 text
NonAscii == "0xFF"

\* texts that begin no statement, or begin one and leave its name out or
\* give it a byte, a quote or a number that no parser accepts
OtherTexts ==
    {<<>>,
     <<"S", "E", "L", "E", "C", "T", " ", "1">>,
     KW.CREATE,
     KW.DROP \o <<" ">> \o ID.table_name \o <<" ">> \o KW.CASCADE,
     KW.CREATE \o <<" ">> \o KW.TABLE \o <<" ", "(", "i", "d", " ">> \o KW.INT \o <<")">>,
     KW.CREATE \o <<" ">> \o KW.TABLE \o <<" ">> \o KW.GLOBAL_TEMPORARY \o <<" ">>
        \o ID.tb \o <<" ", "(", "i", "d", " ">> \o KW.INT \o <<")">>,
     KW.CREATE \o <<" ">> \o KW.SCHEMA,
     KW.CREATE \o <<" ">> \o KW.SCHEMA \o <<" ">> \o <<NonAscii>>,
     KW.CREATE \o <<" ">> \o KW.SCHEMA \o <<" ", "\"", "t", "b">>,
     KW.CREATE \o <<" ">> \o KW.TABLE \o <<" ">> \o ID.tb \o <<" ", "(", "i", "d", " ">>
        \o KW.CHAR \o <<"(">> \o NUM.over \o <<")", ")">>,
     <<NonAscii>>,
     KW.DROP \o <<" ">> \o KW.SCHEMA \o <<" ">> \o KW.CASCADE,
     KW.CREATE \o <<" ">> \o KW.TABLE \o <<" ">> \o ID.tb \o <<"(", "i", "d", " ">>
        \o KW.INT \o <<")">>,
     KW.CREATE \o <<" ">> \o KW.TABLE \o <<" ">> \o ID.quoted \o <<"(", "i", "d", " ">>
        \o KW.INT \o <<")">>}

\* every chain, in the canonical casing and spacing
StructureForms ==
    UNION {
        {StatementForm("CreateSchema", a, d, dot, c, "-", "-", 0, FALSE, <<" ">>, t) :
            a \in IdentPool, d \in 1..MaxChain, dot \in BOOLEAN,
            c \in {"Simple", "NamedAuthorization"}, t \in {<<";">>, <<>>}},
        {StatementForm("CreateSchema", a, 1, FALSE, "Authorization", "-", "-", 0, FALSE, <<" ">>, t) :
            a \in IdentPool, t \in {<<";">>, <<>>}},
        {StatementForm(st, a, d, dot, "-", b, "-", 0, FALSE, <<" ">>, t) :
            st \in {"DropSchema", "DropTable"}, a \in IdentPool, d \in 1..MaxChain,
            dot \in BOOLEAN, b \in {"Cascade", "Restrict"}, t \in {<<";">>, <<>>}},
        {StatementForm("CreateTable", a, d, dot, "-", "-", "None", n, FALSE, <<" ">>, t) :
            a \in IdentPool, d \in 1..MaxChain, dot \in BOOLEAN, n \in 0..MaxCols,
            t \in {<<";">>, <<>>}},
        \* DROP without the drop behaviour
        {StatementForm(st, a, d, FALSE, "-", "None", "-", 0, l, <<" ">>, t) :
            st \in {"DropSchema", "DropTable"}, a \in PlainPool \cup {ID.quoted}, d \in 1..2,
            l \in BOOLEAN, t \in Terminators},
        \* texts that are no statement of the grammar
        {StatementForm("Other", a, 1, FALSE, "-", "-", "-", 0, FALSE, <<" ">>, t) :
            a \in OtherTexts, t \in {<<";">>, <<>>}},
        \* a schema or a user that is called AUTHORIZATION
        {StatementForm("CreateSchema", a, d, FALSE, c, "-", "-", 0, l, <<" ">>, <<";">>) :
            a \in {KW.AUTHORIZATION, LowerText(KW.AUTHORIZATION)}, d \in 1..2,
            c \in {"Simple", "NamedAuthorization"}, l \in BOOLEAN},
        {StatementForm("CreateSchema", a, 1, FALSE, "Authorization", "-", "-", 0, l, <<" ">>, <<";">>) :
            a \in {KW.AUTHORIZATION, LowerText(KW.AUTHORIZATION)}, l \in BOOLEAN}
    }

\* every casing, spacing, terminator and scope, on the short chains
LexicalForms ==
    UNION {
        {StatementForm("CreateSchema", a, d, FALSE, c, "-", "-", 0, l, g, t) :
            a \in PlainPool, d \in 1..2, c \in {"Simple", "NamedAuthorization", "Authorization"},
            l \in BOOLEAN, g \in Gaps, t \in Terminators},
        {StatementForm(st, a, d, FALSE, "-", b, "-", 0, l, g, t) :
            st \in {"DropSchema", "DropTable"}, a \in PlainPool, d \in 1..2,
            b \in {"Cascade", "Restrict"}, l \in BOOLEAN, g \in Gaps, t \in Terminators},
        {StatementForm("CreateTable", a, d, FALSE, "-", "-", sc, n, l, g, t) :
            a \in PlainPool, d \in 1..2, sc \in {"None", "Global", "Local"}, n \in 1..MaxCols,
            l \in BOOLEAN, g \in Gaps, t \in Terminators}
    }

StatementForms == StructureForms \cup LexicalForms

ColumnText(k, lower, gap) ==
    ColumnNames[k] \o (IF ColumnTypes[k] = <<>> THEN <<>> ELSE gap \o Kw(ColumnTypes[k], lower))

RECURSIVE ColumnsText(_, _, _, _)
ColumnsText(k, n, lower, gap) ==
    IF k > n THEN <<>>
    ELSE ColumnText(k, lower, gap)
            \o (IF k < n THEN <<",", " ">> ELSE <<>>) \o ColumnsText(k + 1, n, lower, gap)

\* the drop behaviour and the whitespace before it, or nothing where it is missing
BehaviorText(f) ==
    IF f.behavior = "None" THEN <<>>
    ELSE f.gap \o Kw(IF f.behavior = "Cascade" THEN KW.CASCADE ELSE KW.RESTRICT, f.lower)

ClauseText(f) ==
    IF f.clause = "Simple" THEN ChainText(f.first, f.depth, f.dot)
    ELSE IF f.clause = "Authorization" THEN Kw(KW.AUTHORIZATION, f.lower) \o f.gap \o f.first
    ELSE ChainText(f.first, f.depth, f.dot) \o f.gap \o Kw(KW.AUTHORIZATION, f.lower)
            \o f.gap \o ID.user

ScopeText(f) ==
    IF f.scope = "Global" THEN f.gap \o Kw(KW.GLOBAL_TEMPORARY, f.lower)
    ELSE IF f.scope = "Local" THEN f.gap \o Kw(KW.LOCAL_TEMPORARY, f.lower)
    ELSE <<>>

\* the keywords before the name of the statement
HeadText(f) ==
    CASE f.stmt = "CreateSchema" ->
            Kw(KW.CREATE, f.lower) \o f.gap \o Kw(KW.SCHEMA, f.lower) \o f.gap
      [] f.stmt = "DropSchema" ->
            Kw(KW.DROP, f.lower) \o f.gap \o Kw(KW.SCHEMA, f.lower) \o f.gap
      [] f.stmt = "DropTable" ->
            Kw(KW.DROP, f.lower) \o f.gap \o Kw(KW.TABLE, f.lower) \o f.gap
      [] f.stmt = "CreateTable" ->
            Kw(KW.CREATE, f.lower) \o ScopeText(f) \o f.gap \o Kw(KW.TABLE, f.lower) \o f.gap
      [] f.stmt = "Other" -> <<>>

\* the name and what follows it, up to the terminator
BodyText(f) ==
    CASE f.stmt = "CreateSchema" -> ClauseText(f)
      [] f.stmt \in {"DropSchema", "DropTable"} ->
            ChainText(f.first, f.depth, f.dot) \o BehaviorText(f)
      [] f.stmt = "CreateTable" ->
            ChainText(f.first, f.depth, f.dot) \o f.gap
                \o <<"(">> \o ColumnsText(1, f.cols, f.lower, f.gap) \o <<")">>
      [] f.stmt = "Other" -> f.first

StatementText(f) == HeadText(f) \o BodyText(f) \o f.term

\* the terminators a terminator may become when whitespace runs collapse
NormalTerminators(t) ==
    IF t = <<" ", ";">> THEN {<<";">>, <<" ", ";">>}
    ELSE IF t = <<"\n">> THEN {<<"\n">>, <<" ">>, <<>>}
    ELSE {t}

BeginsWithModule(t) == run(tag_no_case(KW.MODULE_QUALIFIER), t).ok
IsModuleKeyword(t) == Len(t) = Len(KW.MODULE_QUALIFIER) /\ BeginsWithModule(t)

\* the qualifier MODULE of a table name is a keyword
NormalFirst(f) ==
    IF f.stmt \in {"DropTable", "CreateTable"} /\ f.depth >= 2 /\ IsModuleKeyword(f.first)
    THEN KW.MODULE_QUALIFIER ELSE f.first

\* the input with every whitespace run collapsed to one space and every
\* keyword in upper case; everything else is as in the input
Normalize(f) ==
    {StatementText([f EXCEPT !.lower = FALSE, !.gap = <<" ">>, !.term = t,
                             !.first = NormalFirst(f)]) :
        t \in NormalTerminators(f.term)}

\* the statements of the generated buffers, without their terminators
BufferStatements ==
    <<KW.CREATE \o <<" ">> \o KW.SCHEMA \o <<" ">> \o ID.tb,
      KW.DROP \o <<" ">> \o KW.SCHEMA \o <<" ">> \o ID.tb \o <<" ">> \o KW.CASCADE,
      KW.DROP \o <<" ">> \o KW.TABLE \o <<" ">> \o ID.tb \o <<" ">> \o KW.RESTRICT,
      KW.CREATE \o <<" ">> \o KW.TABLE \o <<" ">> \o ID.tb \o <<" ", "(">>
        \o ColumnText(1, FALSE, <<" ">>) \o <<")">>>>

\* a semicolon, a line break, or a semicolon at the end of a line
BufferTerminators == {<<";">>, <<"\n">>, <<"\r", "\n">>, <<";", "\n">>}

BufferItems == [stmt : 1..Len(BufferStatements), term : BufferTerminators]

\* the buffers of 1..MaxStatements terminated statements
BufferForms ==
    {[kind |-> "buffer", items |-> items] :
        items \in UNION {[1..n -> BufferItems] : n \in 1..MaxStatements}}

\* the buffers a driver reads to their end: terminated statements, none
\* included, and then nothing, text that begins no statement, or a blank
DriverForms ==
    {[kind |-> "driver", items |-> items, tail |-> tail] :
        items \in UNION {[1..n -> BufferItems] : n \in 0..MaxStatements},
        tail \in {<<>>, <<"x">>, <<" ">>}}

RECURSIVE BufferTextFrom(_, _)
BufferTextFrom(items, k) ==
    IF k > Len(items) THEN <<>>
    ELSE BufferStatements[items[k].stmt] \o items[k].term \o BufferTextFrom(items, k + 1)

BufferText(items) == BufferTextFrom(items, 1)

\* every text of up to MaxTerminatorText characters out of blanks, line
\* breaks, the semicolon and a letter
TerminatorTexts ==
    UNION {[1..n -> {" ", "\t", "\n", "\r", ";", "x"}] : n \in 0..MaxTerminatorText}

\* every text of up to MaxIdentText characters out of letters, a digit, the
\* underscore, the at sign, the double quote, the blank and a byte above 0x7F
IdentTexts ==
    UNION {[1..n -> {"a", "Z", "1", "_", "@", "\"", " ", NonAscii}] : n \in 0..MaxIdentText}

\* the buffers of the concurrent calls: the statements of BufferStatements,
\* ended by a semicolon, and two texts that are no statement
ConcurrentTexts ==
    {BufferStatements[k] \o <<";">> : k \in 1..Len(BufferStatements)}
        \cup {<<>>, KW.DROP \o <<" ">> \o KW.TABLE \o <<" ">> \o ID.tb}

\* 1..MaxThreads calls, each on a buffer of its own
ConcurrentForms ==
    {[kind |-> "concurrent", inputs |-> inputs] :
        inputs \in UNION {[1..n -> ConcurrentTexts] : n \in 1..MaxThreads}}

\* the calls of the public constructors of TableElementList: new on a
\* slice of 0..MaxCols column definitions, and default
ConstructorForms ==
    {[kind |-> "constructor", via |-> "new",
      elements |-> [k \in 1..n |-> ColumnDefinition(Ident(ColumnNames[k], "None"), None)]] :
        n \in 0..MaxCols}
        \cup {[kind |-> "constructor", via |-> "default", elements |-> <<>>]}

WITH_WORD == SubSeq(KW.WITH_TIME_ZONE, 1, 4)
WITHOUT_WORD == SubSeq(KW.WITHOUT_TIME_ZONE, 1, 7)
ZONE_WORD == SubSeq(KW.WITH_TIME_ZONE, 11, 14)

SuffixForm(parser, text, state, consumed) ==
    [kind |-> "suffix", parser |-> parser, text |-> text, state |-> state,
     consumed |-> consumed]

\* texts given to exact_number_info, each with the state it stands for and
\* the number of characters of its well-formed suffix
ExactSuffixForms ==
    {SuffixForm("exact_number_info", <<>>, "None", 0),
     SuffixForm("exact_number_info", <<"(", "a", "b", "c", ")">>, "None", 0),
     SuffixForm("exact_number_info", <<"(", "2", "0">>, "None", 0),
     SuffixForm("exact_number_info", <<"(", ")">>, "None", 0),
     SuffixForm("exact_number_info", <<"(", "7", ",", "2", "0">>, "None", 0),
     SuffixForm("exact_number_info", <<"(", "7", ",", ")">>, "None", 0),
     SuffixForm("exact_number_info", <<"(", "7", " ", "2", "0", ")">>, "None", 0),
     SuffixForm("exact_number_info", <<"7", ")">>, "None", 0),
     SuffixForm("exact_number_info", <<"x", "(", "7", ")">>, "None", 0),
     SuffixForm("exact_number_info", <<"(">> \o NUM.over \o <<")">>, "None", 0),
     SuffixForm("exact_number_info", <<"(", "7", ",", " ">> \o NUM.over \o <<")">>, "None", 0),
     SuffixForm("exact_number_info", <<"(", "7", ")">>, "Precision", 3),
     SuffixForm("exact_number_info", <<"(", "7", ")", "(", "2", "0", ")">>, "Precision", 3),
     SuffixForm("exact_number_info", <<"(", "7", ")", "x">>, "Precision", 3),
     SuffixForm("exact_number_info", <<"(", "7", ",", " ", "2", "0", ")">>, "PrecisionAndScale", 7),
     SuffixForm("exact_number_info", <<"(", "7", ",", "2", "0", ")", ",">>, "PrecisionAndScale", 6)}

\* texts given to with_or_without_timezone
TimeZoneSuffixForms ==
    {SuffixForm("with_or_without_timezone", <<>>, "None", 0),
     SuffixForm("with_or_without_timezone", <<" ">> \o WITH_WORD, "None", 0),
     SuffixForm("with_or_without_timezone", <<" ">> \o WITH_WORD \o <<" ">> \o KW.TIME, "None", 0),
     SuffixForm("with_or_without_timezone", <<" ">> \o WITHOUT_WORD \o <<" ">> \o KW.TIME, "None", 0),
     SuffixForm("with_or_without_timezone", KW.WITH_TIME_ZONE, "None", 0),
     SuffixForm("with_or_without_timezone", <<" ">> \o WITH_WORD \o <<" ", " ">> \o KW.TIME
                    \o <<" ">> \o ZONE_WORD, "None", 0),
     SuffixForm("with_or_without_timezone", <<" ">> \o WITH_WORD \o <<" ">> \o ZONE_WORD, "None", 0),
     SuffixForm("with_or_without_timezone", <<" ">> \o ZONE_WORD, "None", 0),
     SuffixForm("with_or_without_timezone", <<"(", "7", ")">>, "None", 0),
     SuffixForm("with_or_without_timezone", <<" ">> \o KW.WITH_TIME_ZONE, "WithTimeZone",
                Len(KW.WITH_TIME_ZONE) + 1),
     SuffixForm("with_or_without_timezone", <<" ">> \o LowerText(KW.WITHOUT_TIME_ZONE),
                "WithoutTimeZone", Len(KW.WITHOUT_TIME_ZONE) + 1),
     SuffixForm("with_or_without_timezone", <<" ">> \o KW.WITH_TIME_ZONE \o <<" ", "x">>,
                "WithTimeZone", Len(KW.WITH_TIME_ZONE) + 1)}

SuffixForms == ExactSuffixForms \cup TimeZoneSuffixForms

(***************************************************************************)
(* The state machine: one call of an entry point on one input, the         *)
(* rendering of its value, and the parse of the rendered text.             *)
(***************************************************************************)
NoResult == [ok |-> FALSE, rest |-> <<>>, val |-> Unit]

Start(e, f, text) ==
    /\ entry = e
    /\ form = f
    /\ input = text
    /\ pc = "ready"
    /\ result = NoResult
    /\ rendered = <<>>
    /\ reparsed = NoResult
    /\ calls = <<>>
    /\ threads = <<>>

\* calls of parse_statement on buffers of their own, none of them started
StartConcurrent(f) ==
    /\ entry = "concurrent"
    /\ form = f
    /\ input = <<>>
    /\ pc = "ready"
    /\ result = NoResult
    /\ rendered = <<>>
    /\ reparsed = NoResult
    /\ calls = <<>>
    /\ threads = [t \in 1..Len(f.inputs) |->
                    [input |-> f.inputs[t], next |-> 1, result |-> NoResult, done |-> FALSE]]

Init ==
    \/ \E f \in ConcurrentForms : StartConcurrent(f)
    \/ \E f \in ConstructorForms : Start("TableElementList", f, <<>>)
    \/ \E f \in SuffixForms : Start(f.parser, f, f.text)
    \/ \E f \in DriverForms : Start("driver", f, BufferText(f.items) \o f.tail)
    \/ \E f \in DataTypeForms : Start("data_type", f, DataTypeText(f))
    \/ \E f \in NameForms :
          \E e \in {"table_name", "schema_for_qualified_table_name"} : Start(e, f, NameText(f))
    \/ \E f \in StatementForms : Start("parse_statement", f, StatementText(f))
    \/ \E f \in BufferForms : Start("buffer", f, BufferText(f.items))
    \/ \E t \in TerminatorTexts : Start("statement_terminator", [kind |-> "text"], t)
    \/ \E t \in IdentTexts : Start("ident", [kind |-> "text"], t)

\* the entry point applied to a text
Parse(e, text) ==
    CASE e = "data_type" -> run(data_type, text)
      [] e = "table_name" -> run(table_name, text)
      [] e = "schema_for_qualified_table_name" -> run(schema_for_qualified_table_name, text)
      [] e = "parse_statement" -> run(parse_statement, text)

\* to_string of the value an entry point returns
Display(e, val) ==
    CASE e = "data_type" -> DisplayDataType(val)
      [] e = "table_name" -> DisplayTableName(val)
      [] e = "schema_for_qualified_table_name" -> DisplaySchemaName(val)
      [] e = "parse_statement" -> DisplayStatement(val)

CallDataType ==
    /\ pc = "ready" /\ entry = "data_type"
    /\ result' = run(data_type, input)
    /\ pc' = "parsed"
    /\ UNCHANGED <<entry, form, input, rendered, reparsed, calls, threads>>

CallTableName ==
    /\ pc = "ready" /\ entry = "table_name"
    /\ result' = run(table_name, input)
    /\ pc' = "parsed"
    /\ UNCHANGED <<entry, form, input, rendered, reparsed, calls, threads>>

CallSchemaForQualifiedTableName ==
    /\ pc = "ready" /\ entry = "schema_for_qualified_table_name"
    /\ result' = run(schema_for_qualified_table_name, input)
    /\ pc' = "parsed"
    /\ UNCHANGED <<entry, form, input, rendered, reparsed, calls, threads>>

CallParseStatement ==
    /\ pc = "ready" /\ entry = "parse_statement"
    /\ result' = run(parse_statement, input)
    /\ pc' = "parsed"
    /\ UNCHANGED <<entry, form, input, rendered, reparsed, calls, threads>>

CallStatementTerminator ==
    /\ pc = "ready" /\ entry = "statement_terminator"
    /\ result' = run(statement_terminator, input)
    /\ pc' = "done"
    /\ UNCHANGED <<entry, form, input, rendered, reparsed, calls, threads>>

CallIdent ==
    /\ pc = "ready" /\ entry = "ident"
    /\ result' = run(ident, input)
    /\ pc' = "done"
    /\ UNCHANGED <<entry, form, input, rendered, reparsed, calls, threads>>

CallExactNumberInfo ==
    /\ pc = "ready" /\ entry = "exact_number_info"
    /\ result' = run(exact_number_info, input)
    /\ pc' = "done"
    /\ UNCHANGED <<entry, form, input, rendered, reparsed, calls, threads>>

CallWithOrWithoutTimezone ==
    /\ pc = "ready" /\ entry = "with_or_without_timezone"
    /\ result' = run(with_or_without_timezone, input)
    /\ pc' = "done"
    /\ UNCHANGED <<entry, form, input, rendered, reparsed, calls, threads>>

\* TableElementList::new on a slice of table elements
CallTableElementListNew ==
    /\ pc = "ready" /\ entry = "TableElementList" /\ form.via = "new"
    /\ result' = Ok(<<>>, Apply("TableElementList::new", Unit, form.elements))
    /\ pc' = "done"
    /\ UNCHANGED <<entry, form, input, rendered, reparsed, calls, threads>>

\* TableElementList::default()
CallTableElementListDefault ==
    /\ pc = "ready" /\ entry = "TableElementList" /\ form.via = "default"
    /\ result' = Ok(<<>>, TableElementListDefault)
    /\ pc' = "done"
    /\ UNCHANGED <<entry, form, input, rendered, reparsed, calls, threads>>

\* what the calls made so far have left of the buffer
Remainder == IF calls = <<>> THEN input ELSE calls[Len(calls)].rest

\* one more call of parse_statement, on what the call before it left; the
\* caller stops at the first error and after one call for each statement
CallParseStatementOnRemainder ==
    /\ pc = "ready" /\ entry = "buffer"
    /\ calls' = Append(calls, run(parse_statement, Remainder))
    /\ result' = calls'[Len(calls')]
    /\ pc' = IF result'.ok /\ Len(calls') < Len(form.items) THEN "ready" ELSE "done"
    /\ UNCHANGED <<entry, form, input, rendered, reparsed, threads>>

\* the texts a driver gives to parse_statement: a buffer, and what is left
\* of a buffer after its first statements
DriverTexts == {BufferText(f.items) \o f.tail : f \in DriverForms}

\* parse_statement on the texts of a driver
parse_statement_of == [text \in DriverTexts |-> run(parse_statement, text)]

\* a driver that calls parse_statement on what the call before it left, as
\* long as the call succeeds and leaves something of the buffer; the driver
\* is followed for MaxCalls calls
CallParseStatementUntilEnd ==
    /\ pc = "ready" /\ entry = "driver"
    /\ Len(calls) < MaxCalls
    /\ calls' = Append(calls, parse_statement_of[Remainder])
    /\ result' = calls'[Len(calls')]
    /\ pc' = IF result'.ok /\ result'.rest # <<>> THEN "ready" ELSE "done"
    /\ UNCHANGED <<entry, form, input, rendered, reparsed, threads>>

\* every call reads the buffer of the first call
InputOfFirstCall(ths, t) == ths[1].input

\* the input a call reads: the slice it was given
InputOf(ths, t) == ths[t].input

\* one step of one of the concurrent calls of parse_statement: the next
\* alternative is applied to the input of the call; a success or the error
\* of the last alternative ends the call
ThreadStep(t) ==
    /\ entry = "concurrent" /\ ~threads[t].done
    /\ LET r == run(parse_statement.ps[threads[t].next], InputOf(threads, t))
       IN  threads' =
              [threads EXCEPT ![t] =
                  IF r.ok \/ threads[t].next = Len(parse_statement.ps)
                  THEN [@ EXCEPT !.result = r, !.done = TRUE]
                  ELSE [@ EXCEPT !.next = @ + 1]]
    /\ UNCHANGED <<entry, form, input, pc, result, rendered, reparsed, calls>>

Render ==
    /\ pc = "parsed" /\ result.ok
    /\ rendered' = Display(entry, result.val)
    /\ pc' = "rendered"
    /\ UNCHANGED <<entry, form, input, result, reparsed, calls, threads>>

Reparse ==
    /\ pc = "rendered"
    /\ reparsed' = Parse(entry, rendered)
    /\ pc' = "reparsed"
    /\ UNCHANGED <<entry, form, input, result, rendered, calls, threads>>

Next ==
    \/ CallDataType
    \/ CallTableName
    \/ CallSchemaForQualifiedTableName
    \/ CallParseStatement
    \/ CallParseStatementOnRemainder
    \/ CallStatementTerminator
    \/ CallIdent
    \/ CallParseStatementUntilEnd
    \/ CallExactNumberInfo
    \/ CallWithOrWithoutTimezone
    \/ CallTableElementListNew
    \/ CallTableElementListDefault
    \/ \E t \in 1..Len(threads) : ThreadStep(t)
    \/ Render
    \/ Reparse

Spec == Init /\ [][Next]_vars

\* the driver is a loop of one thread: it makes its next call as long as it
\* has one to make
DriverInit == \E f \in DriverForms : Start("driver", f, BufferText(f.items) \o f.tail)
DriverNext == CallParseStatementUntilEnd
DriverSpec == DriverInit /\ [][DriverNext]_vars /\ WF_vars(DriverNext)

(***************************************************************************)
(* Properties.                                                             *)
(***************************************************************************)
PeriodCount(t) == Cardinality({k \in 1..Len(t) : t[k] = "."})

\* the levels of qualification the grammar gives the name of the statement
Levels(f) == IF f.stmt \in {"CreateSchema", "DropSchema"} THEN 2 ELSE 3

\* the name of the statement is a chain deeper than the grammar allows, or
\* a chain that ends in a dot
OverDeep(f) ==
    /\ f.clause # "Authorization"
    /\ (f.dot \/ f.depth > Levels(f))

\* C1: every canonical data type text is consumed whole by data_type and
\* the rendering of the parsed DataType is the text itself
C1_CanonicalDataTypeRoundTrip ==
    (entry = "data_type" /\ form.style = "canonical") =>
        /\ pc # "ready" => (result.ok /\ result.rest = <<>>)
        /\ pc \in {"rendered", "reparsed"} => rendered = input

C1_Witness ==
    /\ entry = "data_type" /\ form.style = "canonical" /\ pc = "rendered"
    /\ form.shape = "n_mult_units" /\ form.n1 = NUM.max
    /\ result.rest = <<>> /\ rendered = input

\* C2: the rendering of every accepted statement is the input with the
\* whitespace runs collapsed and the keywords in upper case, terminator and
\* parentheses of the element list as in the input
C2_RenderIsNormalizedInput ==
    (entry = "parse_statement" /\ pc = "rendered") => rendered \in Normalize(form)

\* C3: the rendered text of every accepted statement or data type parses
\* again, to the same tree
C3_ParseRenderParse ==
    (entry \in {"data_type", "parse_statement"} /\ pc = "reparsed") =>
        (reparsed.ok /\ reparsed.val = result.val)

PrefixedVariants ==
    {"CharVarying", "CharLargeObject", "Character", "CharacterVarying", "CharacterLargeObject",
     "Decimal", "DecFloat", "Integer", "Timestamp", "BinaryVarying", "BinaryLargeObject"}
ShortVariants == {"Char", "Dec", "Int", "Time", "Binary"}

\* C4: a bare type keyword that has a shorter keyword as a prefix gives its
\* own variant with nothing left, and so does the bare shorter keyword
C4_KeywordPrefix ==
    (/\ entry = "data_type" /\ pc = "parsed"
     /\ form.shape = "none" /\ form.tz = "None"
     /\ form.variant \in PrefixedVariants \cup ShortVariants) =>
        (result.ok /\ result.rest = <<>> /\ result.val.variant = form.variant)

C4_Witness ==
    /\ entry = "data_type" /\ pc = "parsed"
    /\ form.shape = "none" /\ form.variant = "CharLargeObject" /\ form.style = "lower"
    /\ result.ok /\ result.val.variant = "CharLargeObject"

\* the TableName a chain of the given depth stands for
ExpectedTableName(f) ==
    CASE f.depth = 1 -> TableName(None, IdentOf(f.first))
      [] f.depth = 2 /\ IsModuleKeyword(f.first) ->
            TableName(SomeV(LocalQualifierModule), IdentOf(ID.table_name))
      [] f.depth = 2 /\ ~IsModuleKeyword(f.first) ->
            TableName(SomeV(QualifierSchema(SchemaName(None, IdentOf(f.first)))),
                      IdentOf(ID.table_name))
      [] f.depth = 3 ->
            TableName(SomeV(QualifierSchema(SchemaName(SomeV(IdentOf(f.first)),
                                                       IdentOf(ID.schema_name)))),
                      IdentOf(ID.table_name))

\* C5: table_name gives one identifier no qualifier, schema.table the schema
\* qualifier without catalog, catalog.schema.table the schema qualifier with
\* catalog and MODULE.table the module qualifier; the last identifier is the
\* name.  The chains are those whose first identifier is MODULE or does not
\* begin with the letters MODULE.
C5_TableNameByDepth ==
    (/\ entry = "table_name" /\ pc = "parsed"
     /\ ~form.dot /\ IsIdent(form.first)
     /\ BeginsWithModule(form.first) => (IsModuleKeyword(form.first) /\ form.depth <= 2)
     /\ form.depth <= 3) =>
        (result.ok /\ result.rest = form.tail /\ result.val = ExpectedTableName(form))

C5_Witness ==
    /\ entry = "table_name" /\ pc = "parsed"
    /\ form.first = ID.catalog_name /\ form.depth = 3 /\ ~form.dot
    /\ result.ok /\ result.val.opt_local_or_schema.v.schema.opt_catalog_name.tag = "Some"

\* C6: for unquoted identifiers s and t, s other than MODULE, table_name
\* consumes the whole of s.t and gives name t with the schema qualifier s
C6_EveryQualifierButModule ==
    (/\ entry = "table_name" /\ pc = "parsed"
     /\ form.depth = 2 /\ ~form.dot /\ form.tail = <<>>
     /\ IsUnquotedIdent(form.first) /\ ~IsModuleKeyword(form.first)) =>
        /\ result.ok /\ result.rest = <<>>
        /\ result.val = TableName(SomeV(QualifierSchema(SchemaName(None, IdentOf(form.first)))),
                                  IdentOf(ID.table_name))

C8_OverDeepRejected ==
    (entry = "parse_statement" /\ pc = "parsed" /\ OverDeep(form)) => ~result.ok

C8_Witness ==
    /\ entry = "parse_statement" /\ pc = "parsed"
    /\ form.stmt = "DropTable" /\ form.depth = 4 /\ ~form.dot /\ form.first = ID.catalog_name
    /\ ~result.ok

\* the length of the first n identifiers of the chain and the dots between
ChainPrefixLen(f, n) ==
    IF n >= f.depth THEN Len(ChainText(f.first, f.depth, FALSE))
    ELSE Len(f.first \o <<".">> \o MidText(1, n - 1)) - 1

\* the offsets of the token that makes the name wrong: the first dot the
\* grammar has no place for (or the character after it), or the qualifier
\* that is no identifier
OffendingOffsets(f) ==
    IF ~IsIdent(f.first)
    THEN Len(HeadText(f))..(Len(HeadText(f)) + Len(f.first))
    ELSE {Len(HeadText(f)) + ChainPrefixLen(f, Levels(f)),
          Len(HeadText(f)) + ChainPrefixLen(f, Levels(f)) + 1}

\* C9: the error of a statement rejected for its name carries the text from
\* the offending token on
C9_ErrorAtOffendingOffset ==
    (/\ entry = "parse_statement" /\ pc = "parsed"
     /\ \/ IsIdent(form.first) /\ OverDeep(form)
        \/ ~IsIdent(form.first) /\ form.depth >= 2 /\ form.clause # "Authorization") =>
        /\ ~result.ok
        /\ \E k \in OffendingOffsets(form) : result.rest = Drop(input, k)

ExpectedInfo(f) ==
    CASE f.shape = "none" -> ExactNone
      [] f.shape = "n" -> ExactPrecision(NumberOf(f.n1))
      [] f.shape = "n_n" -> ExactPrecisionAndScale(NumberOf(f.n1), NumberOf(f.n2))

ExactInfos ==
    {ExactNone}
        \cup {ExactPrecision(NumberOf(p)) : p \in NumberTexts}
        \cup {ExactPrecisionAndScale(NumberOf(p), NumberOf(s)) : p \in NumberTexts, s \in NumberTexts}

\* C10: NUMERIC, DECIMAL and DEC give None without suffix, Precision(p) for
\* (p) and PrecisionAndScale(p, s) for (p, s), and no other ExactNumberInfo
\* is written like the one that was parsed
C10_ExactNumberInfoStates ==
    (/\ entry = "data_type" /\ pc = "rendered"
     /\ form.variant \in ExactInfoVariants
     /\ form.style \in {"canonical", "lower", "inner"}) =>
        /\ result.val.info = ExpectedInfo(form)
        /\ \A e \in ExactInfos :
              e # result.val.info =>
                  DisplayExactNumberInfo(e) # DisplayExactNumberInfo(result.val.info)

C10_Witness ==
    /\ entry = "data_type" /\ pc = "rendered"
    /\ form.variant = "Numeric" /\ form.shape = "n_n" /\ form.n1 # form.n2
    /\ result.val.info.state = "PrecisionAndScale"
    /\ rendered = input

\* the SchemaName a chain of one or two identifiers stands for
ExpectedSchemaName(f) ==
    IF f.depth = 1 THEN SchemaName(None, IdentOf(f.first))
    ELSE SchemaName(SomeV(IdentOf(f.first)), IdentOf(ID.table_name))

ExpectedClause(f) ==
    CASE f.clause = "Simple" -> ClauseSimple(ExpectedSchemaName(f))
      [] f.clause = "Authorization" -> ClauseAuthorization(IdentOf(f.first))
      [] f.clause = "NamedAuthorization" ->
            ClauseNamedAuthorization(ExpectedSchemaName(f), IdentOf(ID.user))

\* C11: in CREATE SCHEMA, schema-name AUTHORIZATION ident gives
\* NamedAuthorization(schema-name, ident), AUTHORIZATION ident gives
\* Authorization(ident) and a bare schema name gives Simple(schema-name);
\* the simple form never wins where the compound form is written
C11_SchemaNameClauseMostSpecificFirst ==
    (/\ entry = "parse_statement" /\ pc = "parsed"
     /\ form.stmt = "CreateSchema"
     /\ IsIdent(form.first) /\ ~form.dot /\ form.depth <= 2) =>
        /\ result.ok
        /\ result.val = CreateSchema(ExpectedClause(form))
        /\ form.clause = "NamedAuthorization" =>
              result.val.schema_name_clause.variant # "Simple"

C11_Witness ==
    /\ entry = "parse_statement" /\ pc = "parsed"
    /\ form.stmt = "CreateSchema" /\ form.clause = "NamedAuthorization"
    /\ form.first = KW.AUTHORIZATION /\ form.depth = 2
    /\ result.ok
    /\ result.val.schema_name_clause.variant = "NamedAuthorization"
    /\ result.val.schema_name_clause.schema.opt_catalog_name.tag = "Some"

\* the name of the statement is one the grammar of the statement accepts
ValidName(f) ==
    /\ IsIdent(f.first) /\ ~f.dot /\ f.depth <= Levels(f)
    /\ (f.stmt \in {"DropTable", "CreateTable"} /\ BeginsWithModule(f.first)) =>
          (IsModuleKeyword(f.first) /\ f.depth <= 2)

ElementsOf(val) == val.table_contents_source.element_list

\* C13: CREATE TABLE with an empty parenthesised element list fails to
\* parse, and every CreateTable the parser returns has at least one element
C13_EmptyElementListRejected ==
    (entry = "parse_statement" /\ pc = "parsed" /\ form.stmt = "CreateTable") =>
        /\ form.cols = 0 => ~result.ok
        /\ result.ok => (result.val.tag = "CreateTable" /\ Len(ElementsOf(result.val)) >= 1)

C13_Witness ==
    /\ entry = "parse_statement" /\ pc = "parsed"
    /\ form.stmt = "CreateTable" /\ form.cols = 0 /\ ValidName(form)
    /\ form.first = ID.tb /\ form.depth = 1 /\ form.term = <<>>
    /\ ~result.ok
    /\ result.rest = Drop(input, Len(input) - 1)

\* the values of ColumnTypes
ColumnTypeValues ==
    <<SomeV(DtPlain("Int")),
      SomeV(DtLen("Varchar", SomeV(CharacterLength(NumberOf(NUM.twenty), None)))),
      None,
      SomeV(DtPlain("Boolean"))>>

\* the column definitions the generated element lists stand for, in order
ExpectedColumns ==
    [k \in 1..Len(ColumnNames) |->
        ColumnDefinition(Ident(ColumnNames[k], "None"), ColumnTypeValues[k])]

StatementTags == <<"CreateSchema", "DropSchema", "DropTable", "CreateTable">>

\* the alternatives that accept a text
Matching(text) == {k \in 1..Len(Alternatives) : run(Alternatives[k], text).ok}

BufferStatementValues ==
    <<CreateSchema(ClauseSimple(SchemaName(None, Ident(ID.tb, "None")))),
      DropSchema(SchemaName(None, Ident(ID.tb, "None")), "Cascade"),
      DropTable(TableName(None, Ident(ID.tb, "None")), "Restrict"),
      CreateTable(None, TableName(None, Ident(ID.tb, "None")),
                  TableElementList(<<ExpectedColumns[1]>>))>>

\* C16: on a buffer of N statements, each ended by a semicolon or a line
\* break, N successive calls of parse_statement, each on the remainder of
\* the call before, return the N statements in buffer order, each call
\* consumes exactly one statement, and the last remainder is empty
C16_SuccessiveCallsOverBuffer ==
    (entry = "buffer" /\ pc = "done") =>
        /\ Len(calls) = Len(form.items)
        /\ \A k \in 1..Len(calls) :
              /\ calls[k].ok
              /\ calls[k].val = BufferStatementValues[form.items[k].stmt]
              /\ calls[k].rest = BufferTextFrom(form.items, k + 1)

\* where a statement that is not the last one ends in a line break only,
\* the call on it fails; every other buffer is parsed as C16 says
LineBreakBeforeStatementFails ==
    (entry = "buffer" /\ pc = "done") =>
        LET bare == {k \in 1..(Len(form.items) - 1) : form.items[k].term[1] # ";"}
        IN  IF bare = {} THEN C16_SuccessiveCallsOverBuffer
            ELSE /\ \A k \in bare : Len(calls) <= k
                 /\ ~calls[Len(calls)].ok

\* the text with its leading whitespace dropped
SkipWhitespace(t) ==
    LET k == CHOOSE n \in 0..Len(t) :
                /\ \A j \in 1..n : is_whitespace(t[j])
                /\ n < Len(t) => ~is_whitespace(t[n + 1])
    IN  Drop(t, k)

\* the text is at its end or continues with a semicolon or a line ending
AtTerminator(t) ==
    \/ t = <<>>
    \/ t[1] = ";"
    \/ t[1] = "\n"
    \/ Len(t) >= 2 /\ t[1] = "\r" /\ t[2] = "\n"

IdentRun(t) ==
    CHOOSE n \in 0..Len(t) :
        /\ \A j \in 1..n : is_sql_identifier(t[j])
        /\ n < Len(t) => ~is_sql_identifier(t[n + 1])

\* a double quote, a non-empty run of identifier characters, a double quote
BeginsQuoted(t) ==
    /\ t # <<>> /\ t[1] = "\""
    /\ IdentRun(Tail(t)) >= 1
    /\ Len(t) >= IdentRun(Tail(t)) + 2
    /\ t[IdentRun(Tail(t)) + 2] = "\""

\* a run of identifier characters that begins with a letter
BeginsUnquoted(t) == t # <<>> /\ is_alphabetic(t[1])

C19_IdentSkipsLeadingWhitespace ==
    (/\ entry = "ident" /\ pc = "done"
     /\ input # <<>> /\ is_whitespace(input[1])
     /\ (BeginsQuoted(SkipWhitespace(input)) \/ BeginsUnquoted(SkipWhitespace(input)))) =>
        /\ result.ok
        /\ result.val =
              IF BeginsQuoted(SkipWhitespace(input))
              THEN Ident(SubSeq(SkipWhitespace(input), 2,
                                IdentRun(Tail(SkipWhitespace(input))) + 1), "DoubleQuote")
              ELSE Ident(Take(SkipWhitespace(input), IdentRun(SkipWhitespace(input))), "None")

IsSuffix(s, t) == Len(s) <= Len(t) /\ s = Drop(t, Len(t) - Len(s))

\* a success with the unconsumed rest of the text, or an error without a
\* value at a position of the text
Recoverable(r, text) == IsSuffix(r.rest, text) /\ (r.ok \/ r.val = Unit)

\* C20: on every input, the empty text, a byte that is no ASCII character,
\* an unterminated quote and a number too large for 32 bits included, every
\* call returns a success or an error that carries a position of the
\* input; a number too large for 32 bits is an error of the number parser,
\* which leaves the parenthesised number unconsumed
C20_SuccessOrRecoverableError ==
    /\ (pc # "ready" /\ entry # "buffer") => Recoverable(result, input)
    /\ \A k \in 1..Len(calls) : Recoverable(calls[k], input)
    /\ pc = "reparsed" => Recoverable(reparsed, rendered)
    /\ (entry = "data_type" /\ pc # "ready" /\ form.style = "overflow") =>
          (result.ok /\ result.rest = Drop(input, Len(KeywordOf(form.variant))))

C20_Witness ==
    /\ entry = "data_type" /\ pc = "parsed"
    /\ form.style = "overflow" /\ form.variant = "Decimal" /\ form.shape = "n_n"
    /\ form.n1 = NUM.seven
    /\ result.ok /\ result.val.info = ExactNone
    /\ result.rest = <<"(">> \o NUM.seven \o <<",", " ">> \o NUM.over \o <<")">>

\* what an alternation over ps gives when every alternative is applied to
\* the text itself: the first success, or the error of the last one
FirstSuccess(ps, text) ==
    LET ok == {k \in 1..Len(ps) : run(ps[k], text).ok}
    IN  IF ok = {} THEN run(ps[Len(ps)], text)
        ELSE run(ps[CHOOSE k \in ok : \A j \in ok : k <= j], text)

\* the text of a statement after the keywords before its name
BodyOf(f, text) == Drop(text, Len(HeadText(f)))

StoredNumbers(v) ==
    IF "info" \in DOMAIN v
    THEN CASE v.info.state = "None" -> <<>>
           [] v.info.state = "Precision" -> <<v.info.precision>>
           [] v.info.state = "PrecisionAndScale" -> <<v.info.precision, v.info.scale>>
    ELSE IF "opt_len" \in DOMAIN v
    THEN (IF v.opt_len = None THEN <<>> ELSE <<v.opt_len.v.length>>)
    ELSE IF "opt_lob" \in DOMAIN v
    THEN (IF v.opt_lob = None THEN <<>> ELSE <<v.opt_lob.v.length.length>>)
    ELSE IF "opt_lol" \in DOMAIN v
    THEN (IF v.opt_lol = None THEN <<>> ELSE <<v.opt_lol.v.length>>)
    ELSE IF "opt_n" \in DOMAIN v
    THEN (IF v.opt_n = None THEN <<>> ELSE <<v.opt_n.n>>)
    ELSE <<>>

\* C22: every length, precision and scale written as a number from 0 to
\* 4294967295 is accepted and stored as that number, and a number above
\* 4294967295 is not stored at all, wrapped or otherwise
C22_NumbersStoredUnchanged ==
    (entry = "data_type" /\ pc = "parsed" /\ form.shape # "none") =>
        /\ form.style \in {"canonical", "lower"} =>
              /\ result.ok /\ result.rest = <<>>
              /\ StoredNumbers(result.val) =
                    IF form.shape = "n_n" THEN <<NumberOf(form.n1), NumberOf(form.n2)>>
                    ELSE <<NumberOf(form.n1)>>
        /\ form.style = "overflow" => (result.ok /\ StoredNumbers(result.val) = <<>>)

C22_Witness ==
    /\ entry = "data_type" /\ pc = "parsed"
    /\ form.variant = "Numeric" /\ form.shape = "n_n" /\ form.style = "canonical"
    /\ form.n1 = NUM.max /\ form.n2 = NUM.zero
    /\ result.ok
    /\ StoredNumbers(result.val) = <<U32(U32MaxHi, U32MaxLo), U32(0, 0)>>

C24_TableElementListNonEmpty ==
    /\ (entry = "parse_statement" /\ pc = "parsed" /\ result.ok
            /\ result.val.tag = "CreateTable") =>
          Len(ElementsOf(result.val)) >= 1
    /\ (entry = "TableElementList" /\ pc = "done") =>
          /\ Len(result.val.element_list) >= 1
          /\ form.via = "new" => result.val.element_list = form.elements

\* the parser and new on a non-empty slice give a non-empty list in the
\* order given; new on the empty slice and default give the empty list
TableElementListEmptyOnlyByConstructor ==
    /\ (entry = "parse_statement" /\ pc = "parsed" /\ result.ok
            /\ result.val.tag = "CreateTable") =>
          Len(ElementsOf(result.val)) >= 1
    /\ (entry = "TableElementList" /\ pc = "done") =>
          /\ result.val.element_list = form.elements
          /\ (Len(result.val.element_list) = 0) <=> (form.elements = <<>>)


(***************************************************************************)
(* C25                                                                     *)
(***************************************************************************)
\* the state a result of exact_number_info or with_or_without_timezone is in
SuffixState(val) ==
    IF val.tag = "Named" THEN val.id ELSE val.state

\* C25: exact_number_info and with_or_without_timezone never fail: on every
\* text they succeed, and on a text that does not begin with a well-formed
\* suffix (nothing, a malformed parenthesised part, WITH without TIME ZONE)
\* they return their None state and leave the whole text as the remainder.
C25_OptionalSuffixNeverFails ==
    (form.kind = "suffix" /\ pc = "done") =>
        /\ result.ok
        /\ SuffixState(result.val) = form.state
        /\ result.rest = SubSeq(input, form.consumed + 1, Len(input))
        /\ form.state = "None" => result.rest = input

C25_Witness ==
    /\ form.kind = "suffix" /\ pc = "done"
    /\ entry = "exact_number_info"
    /\ input = <<"(", "a", "b", "c", ")">>
    /\ result = Ok(input, ExactNone)


(***************************************************************************)
(* C26                                                                     *)
(***************************************************************************)
\* the form with its keywords in upper case and its identifiers unchanged
UpperKeywords(f) ==
    IF f.kind = "data_type" THEN [f EXCEPT !.style = "canonical"]
    ELSE [f EXCEPT !.lower = FALSE, !.first = NormalFirst(f)]

\* the form is written with lower-case keywords
HasLowerKeywords(f) ==
    IF f.kind = "data_type" THEN f.style = "lower"
    ELSE f.lower \/ f.first # NormalFirst(f)

\* the name of a statement, as the tree holds it
NameOf(val) ==
    CASE val.tag = "CreateSchema" -> val.schema_name_clause
      [] val.tag = "DropSchema" -> val.schema_name
      [] val.tag \in {"DropTable", "CreateTable"} -> val.table_name

\* the name the text of the form gives the statement, character by character
ExpectedName(f) ==
    CASE f.stmt = "CreateSchema" -> ExpectedClause(f)
      [] f.stmt = "DropSchema" -> ExpectedSchemaName(f)
      [] f.stmt \in {"DropTable", "CreateTable"} -> ExpectedTableName(f)

\* C26: keywords are recognised in any letter case and identifiers keep
\* their characters: a statement or data type written with lower-case
\* keywords (the qualifier MODULE included) is accepted exactly when the
\* upper-case text is and gives the same tree, and the identifiers of an
\* accepted statement are in the tree with the characters and the quote
\* style of the input.
C26_KeywordsCaseInsensitiveIdentifiersKept ==
    /\ (/\ entry \in {"parse_statement", "data_type"} /\ pc = "parsed"
        /\ form.kind \in {"statement", "data_type"}
        /\ HasLowerKeywords(form)) =>
            /\ result.ok = run(IF entry = "data_type" THEN data_type ELSE parse_statement,
                               IF entry = "data_type" THEN DataTypeText(UpperKeywords(form))
                               ELSE StatementText(UpperKeywords(form))).ok
            /\ result.ok =>
                  result.val = run(IF entry = "data_type" THEN data_type ELSE parse_statement,
                                   IF entry = "data_type" THEN DataTypeText(UpperKeywords(form))
                                   ELSE StatementText(UpperKeywords(form))).val
    /\ (/\ entry = "parse_statement" /\ pc = "parsed"
        /\ form.kind = "statement" /\ form.stmt # "Other"
        /\ result.ok) =>
            NameOf(result.val) = ExpectedName(form)

C26_Witness ==
    /\ entry = "parse_statement" /\ pc = "parsed"
    /\ form.kind = "statement" /\ form.stmt = "CreateTable"
    /\ form.lower /\ form.scope = "Global"
    /\ result.ok
    /\ result.val.table_name = TableName(None, Ident(ID.table_name, "None"))
    /\ result.val.opt_table_scope = SomeV(Named("Global"))


(***************************************************************************)
(* C27                                                                     *)
(***************************************************************************)
\* the top-level alternation with its alternatives in the opposite order
parse_statement_reversed ==
    alt([k \in 1..Len(Alternatives) |->
            map(Alternatives[Len(Alternatives) + 1 - k], "Statement", Unit)])

\* C27: at most one of create_schema, drop_schema, drop_table and
\* create_table accepts a text, so the statement and the remainder that
\* parse_statement returns are those of the same alternation tried in the
\* opposite order.
C27_StatementParsersMutuallyExclusive ==
    (entry = "parse_statement" /\ pc = "parsed") =>
        /\ Cardinality(Matching(input)) <= 1
        /\ result.ok = run(parse_statement_reversed, input).ok
        /\ result.ok => result = run(parse_statement_reversed, input)

C27_Witness ==
    /\ entry = "parse_statement" /\ pc = "parsed"
    /\ form.stmt = "DropSchema" /\ form.behavior = "Restrict"
    /\ result.ok /\ result.val.tag = "DropSchema"
    /\ Matching(input) = {2}
    /\ run(parse_statement_reversed, input) = result


(***************************************************************************)
(* C28                                                                     *)
(***************************************************************************)
\* the text the k-th call of the driver was given
GivenTo(k) == IF k = 1 THEN input ELSE calls[k - 1].rest

\* C28: every successful call of parse_statement by a driver over a buffer
\* leaves less than it was given, and the driver that keeps calling on the
\* remainder stops: with an empty remainder after a success, or with an
\* error.
C28_DriverStops ==
    /\ [](entry = "driver" =>
            /\ Len(calls) <= Len(input) + 1
            /\ \A k \in 1..Len(calls) :
                  calls[k].ok => Len(calls[k].rest) < Len(GivenTo(k)))
    /\ ((entry = "driver") ~> (entry = "driver" /\ pc = "done"))
    /\ []((entry = "driver" /\ pc = "done") => (~result.ok \/ result.rest = <<>>))

C28_Witness ==
    /\ entry = "driver" /\ pc = "done"
    /\ Len(form.items) = 2 /\ form.tail = <<>>
    /\ Len(calls) = 2
    /\ calls[1].ok /\ calls[2].ok /\ calls[2].rest = <<>>


(***************************************************************************)
(* C29                                                                     *)
(***************************************************************************)
\* the calls made so far, each with the text it was given
CallsMade ==
    (IF pc # "ready" /\ entry \notin {"buffer", "driver", "concurrent"}
     THEN {<<result, input>>} ELSE {})
        \cup (IF pc = "reparsed" THEN {<<reparsed, rendered>>} ELSE {})
        \cup {<<calls[k], GivenTo(k)>> : k \in 1..Len(calls)}
        \cup {<<threads[t].result, threads[t].input>> :
                t \in {u \in 1..Len(threads) : threads[u].done}}

\* the characters of the text that the call has consumed
Consumed(r, text) == Take(text, Len(text) - Len(r.rest))

\* C29: a successful call of a parser of the grammar returns as remainder
\* a suffix of the text it was given, so that the text is the consumed
\* prefix followed by the remainder; ident returns the identifier that the
\* consumed prefix spells; and the lookahead of
\* schema_for_qualified_table_name leaves the remainder as it is: the
\* period and the identifier it has looked at are still to be read.
C29_RemainderIsSuffixOfInput ==
    /\ \A c \in CallsMade :
          c[1].ok =>
              /\ Len(c[1].rest) <= Len(c[2])
              /\ c[2] = Consumed(c[1], c[2]) \o c[1].rest
    /\ (entry = "ident" /\ pc = "done" /\ result.ok) =>
          result.val = IdentOf(Consumed(result, input))
    /\ (entry = "schema_for_qualified_table_name" /\ pc = "parsed" /\ result.ok) =>
          /\ run(peek(tuple(<<period, ident>>)), result.rest).ok
          /\ run(peek(tuple(<<period, ident>>)), result.rest).rest = result.rest

C29_Witness ==
    /\ entry = "schema_for_qualified_table_name" /\ pc = "parsed" /\ result.ok
    /\ form.depth = 2 /\ form.first = ID.schema_name /\ form.tail # <<>>
    /\ input = ID.schema_name \o result.rest
    /\ result.rest = <<".">> \o ID.table_name \o form.tail


(***************************************************************************)
(* C30                                                                     *)
(***************************************************************************)
\* the text of a CREATE TABLE form with the opening parenthesis of the
\* element list right after the table name
WithoutGapBeforeList(f) ==
    HeadText(f) \o ChainText(f.first, f.depth, f.dot)
        \o <<"(">> \o ColumnsText(1, f.cols, f.lower, f.gap) \o <<")">> \o f.term

====
